---- MODULE Spec2Model ----
(***************************************************************************)
(* A model of the helpdesk REST backend: the shared pagination helpers and *)
(* AppError taxonomy (internal/utils), and the handler -> service ->       *)
(* repository request processing of the category, division and user       *)
(* features over a PostgreSQL store.                                       *)
(*                                                                         *)
(* Strings are sequences of one-character strings, so that TrimSpace,      *)
(* LOWER() and the length checks are computed, not assumed.  A Go nil is   *)
(* the empty sequence Nil and a non-nil pointer to x is <<x>>.             *)
(* Go ints are 64 bits wide; every integer of the model is far below that. *)
(***************************************************************************)
EXTENDS Integers, Sequences, FiniteSets, TLC

VARIABLES
    fnIn,      \* the arguments of a helper call (pure-helper specification)
    fnOut,     \* Nil, or <<result>> once the helper has returned
    feature,   \* the feature whose endpoints the clients call in this run
    store,     \* the rows of that feature's table
    nextId,    \* the next value of the table's SERIAL id sequence
    req,       \* per client: the request in flight, its position and response
    deleted,   \* the ids a Delete request has removed successfully (history)
    dbFaulty,  \* whether database statements and file operations may fail
    files,     \* the avatar files in the upload directory
    nextFile,  \* numbers the files saved so far (the clock of their names)
    endpoints  \* the operations the clients request in this run

vars == <<fnIn, fnOut, feature, store, nextId, req, deleted, dbFaulty, files,
          nextFile, endpoints>>

Nil == <<>>

Some(x) == <<x>>

-----------------------------------------------------------------------------
(* Bounds of the model.                                                    *)

MaxPageIn == 4
MaxLimitIn == 102
MaxTotalIn == 203
MaxId == 2

-----------------------------------------------------------------------------
(* internal/utils/errors: the AppError taxonomy.                           *)

CODE_NOT_FOUND == "NOT_FOUND"
CODE_ALREADY_EXISTS == "ALREADY_EXISTS"
CODE_VALIDATION_ERROR == "VALIDATION_ERROR"
CODE_INTERNAL_ERROR == "INTERNAL_SERVER_ERROR"
CODE_BAD_REQUEST == "BAD_REQUEST"

StatusOK == 200
StatusCreated == 201
StatusBadRequest == 400
StatusNotFound == 404
StatusConflict == 409
StatusInternalServerError == 500

\* the text of an error or message: a format literal and its arguments
Txt(fmt, args) == [fmt |-> fmt, args |-> args]

\* A plain Go error (fmt.Errorf, sql.ErrNoRows, a driver error): its text only.
PlainError(text) == [type |-> "error", text |-> text]

AppError(err, code, message, statusCode, details) ==
    [type |-> "AppError", Err |-> err, Code |-> code, Message |-> message,
     StatusCode |-> statusCode, Details |-> details]

NotFoundStatus500(resource) ==
    AppError("resource not found", CODE_NOT_FOUND, Txt("%s not found", <<resource>>),
             StatusInternalServerError, Nil)

NotFound(resource) ==
    AppError("resource not found", CODE_NOT_FOUND, Txt("%s not found", <<resource>>),
             StatusNotFound, Nil)

AlreadyExists(resource) ==
    AppError("resource already exists", CODE_ALREADY_EXISTS,
             Txt("%s already exists", <<resource>>), StatusConflict, Nil)

Validation(message) ==
    AppError("validation error", CODE_VALIDATION_ERROR, message,
             StatusBadRequest, Nil)

Internal(message) ==
    AppError("internal server error", CODE_INTERNAL_ERROR, message,
             StatusInternalServerError, Nil)

BadRequest(message) ==
    AppError("bad request", CODE_BAD_REQUEST, message, StatusBadRequest, Nil)

WithDetails(e, details) == [e EXCEPT !.Details = Some(details)]

\* AppError.Error() / error.Error()
ErrorText(e) == IF e.type = "AppError" THEN e.Message ELSE e.text

-----------------------------------------------------------------------------
(* internal/utils/response: responses and pagination.                      *)

DefaultPage == 1
DefaultLimit == 10
MaxLimit == 100

Response(status, success, message, data, errorInfo) ==
    [status |-> status, success |-> success, message |-> message,
     data |-> data, error |-> errorInfo]

Success(statusCode, message, data) ==
    Response(statusCode, TRUE, message, Some(data), Nil)

Created(message, data) == Success(StatusCreated, message, data)

OK(message, data) == Success(StatusOK, message, data)

\* response.Error: an AppError answers with its own status and code, any
\* other error is wrapped by errors.Internal(err.Error()).
Error(err) ==
    LET appErr == IF err.type = "AppError" THEN err ELSE Internal(ErrorText(err))
    IN  Response(appErr.StatusCode, FALSE, "",  Nil,
                 Some([Code |-> appErr.Code, Message |-> appErr.Message,
                       Details |-> appErr.Details]))

NormalizePaginationNoClamp(q) ==
    LET page == IF q.Page < 1 THEN DefaultPage ELSE q.Page
        limit == IF q.Limit < 1 THEN DefaultLimit ELSE q.Limit
    IN  [page |-> page, limit |-> limit, offset |-> (page - 1) * limit]

NormalizePagination(q) ==
    LET page0 == IF q.Page = 0 THEN DefaultPage ELSE q.Page
        page == IF page0 < 1 THEN DefaultPage ELSE page0
        limit0 == IF q.Limit = 0 THEN DefaultLimit ELSE q.Limit
        limit1 == IF limit0 < 1 THEN DefaultLimit ELSE limit0
        limit == IF limit1 > MaxLimit THEN MaxLimit ELSE limit1
    IN  [page |-> page, limit |-> limit, offset |-> (page - 1) * limit]

\* Go's / truncates toward zero
GoDiv(a, b) ==
    IF (a >= 0) = (b > 0) THEN a \div b
    ELSE -((-a) \div b)

CalculateTotalPagesFloor(totalItems, limit) ==
    IF totalItems = 0 THEN 0 ELSE GoDiv(totalItems, limit)

CalculateTotalPages(totalItems, limit) ==
    IF totalItems = 0 THEN 0 ELSE GoDiv(totalItems + limit - 1, limit)

-----------------------------------------------------------------------------
(* Strings: TrimSpace, LOWER(), ILIKE.                                     *)

Str_a == <<"a">>
Str_sp_a == <<" ", "a">>
Str_ab == <<"a", "b">>
Str_AB == <<"A", "B">>
Str_b == <<"b">>
Str_us_b == <<"_", "b">>

\* a string of n characters c
Repeat(c, n) == [i \in 1 .. n |-> c]

LowerLetters == <<"a", "b", "c", "d", "e", "f", "g", "h", "i", "j", "k", "l", "m",
                  "n", "o", "p", "q", "r", "s", "t", "u", "v", "w", "x", "y", "z">>

UpperLetters == <<"A", "B", "C", "D", "E", "F", "G", "H", "I", "J", "K", "L", "M",
                  "N", "O", "P", "Q", "R", "S", "T", "U", "V", "W", "X", "Y", "Z">>

LowerChar(c) ==
    IF \E i \in DOMAIN UpperLetters : UpperLetters[i] = c
    THEN LowerLetters[CHOOSE i \in DOMAIN UpperLetters : UpperLetters[i] = c]
    ELSE c

\* PostgreSQL LOWER(text)
Lower(s) == [i \in 1 .. Len(s) |-> LowerChar(s[i])]

RECURSIVE TrimLeft(_)
TrimLeft(s) == IF s # <<>> /\ Head(s) = " " THEN TrimLeft(Tail(s)) ELSE s

RECURSIVE TrimRight(_)
TrimRight(s) ==
    IF s # <<>> /\ s[Len(s)] = " " THEN TrimRight(SubSeq(s, 1, Len(s) - 1)) ELSE s

\* strings.TrimSpace
TrimSpace(s) == TrimRight(TrimLeft(s))

\* utf8.RuneCountInString
RuneCount(s) == Len(s)

\* PostgreSQL  s ILIKE p : % matches any run of characters, _ any one
\* character, every other character itself, letter case ignored.
RECURSIVE LikeMatch(_, _)
LikeMatch(s, p) ==
    IF p = <<>> THEN s = <<>>
    ELSE IF Head(p) = "%"
         THEN LikeMatch(s, Tail(p)) \/ (s # <<>> /\ LikeMatch(Tail(s), p))
         ELSE /\ s # <<>>
              /\ (Head(p) = "_" \/ LowerChar(Head(p)) = LowerChar(Head(s)))
              /\ LikeMatch(Tail(s), Tail(p))

ILike(s, p) == LikeMatch(s, p)

\* strings.Contains(text, "already exists"): the format literals holding it
AlreadyExistsFormats == {"%s with name '%s' already exists",
                         "user with email '%s' already exists",
                         "%s already exists"}

ContainsAlreadyExists(text) == text.fmt \in AlreadyExistsFormats

-----------------------------------------------------------------------------
(* internal/utils/validator.  v.Errors is the map from field to message;   *)
(* v.log records every AddError call in order (history, not read by the    *)
(* code).                                                                  *)

NewValidator == [Errors |-> <<>>, log |-> <<>>]

Valid(v) == DOMAIN v.Errors = {}

AddErrorOverwrite(v, field, message) ==
    [Errors |-> [f \in DOMAIN v.Errors \cup {field} |->
                    IF f = field THEN message ELSE v.Errors[f]],
     log |-> Append(v.log, <<field, message>>)]

AddError(v, field, message) ==
    [Errors |-> IF field \in DOMAIN v.Errors THEN v.Errors
                ELSE [f \in DOMAIN v.Errors \cup {field} |->
                         IF f = field THEN message ELSE v.Errors[f]],
     log |-> Append(v.log, <<field, message>>)]

Check(v, ok, field, message) == IF ok THEN v ELSE AddError(v, field, message)

ToAppError(v) ==
    IF Valid(v) THEN Nil
    ELSE Some(WithDetails(Validation(Txt("Validation failed", <<>>)), v.Errors))

Required(value) == TrimSpace(value) # <<>>

MinLength(value, min) == RuneCount(value) >= min

MaxLength(value, max) == RuneCount(value) <= max

ValidateString(v, field, value, required, minLen, maxLen) ==
    LET v1 == IF required
              THEN Check(v, Required(value), field,
                         Txt("%s is required", <<field>>))
              ELSE v
        v2 == IF value # <<>> /\ minLen > 0
              THEN Check(v1, MinLength(value, minLen), field,
                         Txt("%s must be at least %d characters long",
                             <<field, minLen>>))
              ELSE v1
        v3 == IF value # <<>> /\ maxLen > 0
              THEN Check(v2, MaxLength(value, maxLen), field,
                         Txt("%s must not be more than %d characters long",
                             <<field, maxLen>>))
              ELSE v2
    IN  v3

-----------------------------------------------------------------------------
(* The helpers on their own: the arguments are drawn by FnInit, one action *)
(* per helper applies it.                                                  *)

ErrorKinds == {"NotFound", "AlreadyExists", "Validation", "Internal",
               "BadRequest", "plain"}

ErrorArgs == {"Category", "Division", "User"}

\* The error value each constructor of errors.go builds ("plain": an error
\* that is no AppError, such as a bind or driver error).
MakeError(kind, arg) ==
    CASE kind = "NotFound" -> NotFound(arg)
      [] kind = "AlreadyExists" -> AlreadyExists(arg)
      [] kind = "Validation" -> Validation(arg)
      [] kind = "Internal" -> Internal(arg)
      [] kind = "BadRequest" -> BadRequest(arg)
      [] OTHER -> PlainError(arg)

FnInputs ==
    {[fn |-> "NormalizePagination", Page |-> p, Limit |-> l] :
        p \in -2 .. MaxPageIn, l \in -2 .. MaxLimitIn}
    \cup {[fn |-> "CalculateTotalPages", totalItems |-> t, limit |-> l] :
        t \in 0 .. MaxTotalIn, l \in 1 .. MaxLimit}
    \cup {[fn |-> "Error", kind |-> k, arg |-> a, err |-> Nil] :
        k \in ErrorKinds, a \in ErrorArgs}

IdleInit ==
    /\ feature = "none"
    /\ store = {}
    /\ nextId = 1
    /\ req = <<>>
    /\ deleted = {}
    /\ dbFaulty = FALSE
    /\ files = {}
    /\ nextFile = 1
    /\ endpoints = {}

FnInit ==
    /\ fnIn \in FnInputs
    /\ fnOut = Nil
    /\ IdleInit

CallNormalizePagination ==
    /\ fnIn.fn = "NormalizePagination"
    /\ fnOut = Nil
    /\ fnOut' = Some(NormalizePagination(fnIn))
    /\ UNCHANGED <<fnIn, feature, store, nextId, req, deleted, dbFaulty, files,
                   nextFile, endpoints>>

CallCalculateTotalPages ==
    /\ fnIn.fn = "CalculateTotalPages"
    /\ fnOut = Nil
    /\ fnOut' = Some(CalculateTotalPages(fnIn.totalItems, fnIn.limit))
    /\ UNCHANGED <<fnIn, feature, store, nextId, req, deleted, dbFaulty, files,
                   nextFile, endpoints>>

\* a service or handler builds the error ...
CallMakeError ==
    /\ fnIn.fn = "Error"
    /\ fnIn.err = Nil
    /\ fnIn' = [fnIn EXCEPT !.err = Some(MakeError(fnIn.kind, fnIn.arg))]
    /\ UNCHANGED <<fnOut, feature, store, nextId, req, deleted, dbFaulty,
                   files, nextFile, endpoints>>

\* ... and the handler answers it with response.Error
CallError ==
    /\ fnIn.fn = "Error"
    /\ fnIn.err # Nil
    /\ fnOut = Nil
    /\ fnOut' = Some(Error(fnIn.err[1]))
    /\ UNCHANGED <<fnIn, feature, store, nextId, req, deleted, dbFaulty, files,
                   nextFile, endpoints>>

FnNext ==
    \/ CallNormalizePagination
    \/ CallCalculateTotalPages
    \/ CallMakeError
    \/ CallError

SpecFn == FnInit /\ [][FnNext]_vars

-----------------------------------------------------------------------------
(* C1: NormalizePagination returns page' = page when page >= 1 and 1       *)
(* otherwise; limit' = 10 when limit <= 0, 100 when limit > 100 and limit  *)
(* otherwise; offset = (page' - 1) * limit'; hence page' >= 1 and          *)
(* 1 <= limit' <= 100.                                                     *)
C1_NormalizePagination ==
    (fnIn.fn = "NormalizePagination" /\ fnOut # Nil) =>
        LET r == fnOut[1]
        IN  /\ r.page = (IF fnIn.Page >= 1 THEN fnIn.Page ELSE 1)
            /\ r.limit = (IF fnIn.Limit <= 0 THEN 10
                          ELSE IF fnIn.Limit > 100 THEN 100 ELSE fnIn.Limit)
            /\ r.offset = (r.page - 1) * r.limit
            /\ r.page >= 1
            /\ 1 <= r.limit /\ r.limit <= 100

\* a call with a negative page and an over-limit limit has returned
C1_Witness ==
    /\ fnIn.fn = "NormalizePagination"
    /\ fnOut # Nil
    /\ fnIn.Page < 0
    /\ fnIn.Limit > 100

(* C2: CalculateTotalPages(totalItems, limit), for totalItems >= 0 and     *)
(* limit in 1..100, is 0 when totalItems is 0 and otherwise the smallest n *)
(* with n * limit >= totalItems.                                           *)
C2_CalculateTotalPages ==
    (fnIn.fn = "CalculateTotalPages" /\ fnOut # Nil) =>
        LET n == fnOut[1]
        IN  IF fnIn.totalItems = 0 THEN n = 0
            ELSE /\ n * fnIn.limit >= fnIn.totalItems
                 /\ (n - 1) * fnIn.limit < fnIn.totalItems

\* a call whose totalItems is not a multiple of limit has returned
C2_Witness ==
    /\ fnIn.fn = "CalculateTotalPages"
    /\ fnOut # Nil
    /\ fnIn.totalItems > fnIn.limit
    /\ fnIn.totalItems % fnIn.limit # 0

\* the code and status the README's table gives each error kind
KindTable ==
    [NotFound |-> <<"NOT_FOUND", 404>>,
     AlreadyExists |-> <<"ALREADY_EXISTS", 409>>,
     Validation |-> <<"VALIDATION_ERROR", 400>>,
     BadRequest |-> <<"BAD_REQUEST", 400>>,
     Internal |-> <<"INTERNAL_SERVER_ERROR", 500>>]

(* C3: each error kind has one fixed code and HTTP status (NotFound:       *)
(* NOT_FOUND/404, AlreadyExists: ALREADY_EXISTS/409, Validation:           *)
(* VALIDATION_ERROR/400, BadRequest: BAD_REQUEST/400, Internal:            *)
(* INTERNAL_SERVER_ERROR/500), and response.Error answers an AppError with *)
(* exactly that status and that code.                                      *)
C3_ErrorKindStatus ==
    (fnIn.fn = "Error" /\ fnIn.kind # "plain") =>
        /\ fnIn.err # Nil =>
              /\ fnIn.err[1].Code = KindTable[fnIn.kind][1]
              /\ fnIn.err[1].StatusCode = KindTable[fnIn.kind][2]
        /\ fnOut # Nil =>
              /\ fnOut[1].success = FALSE
              /\ fnOut[1].status = KindTable[fnIn.kind][2]
              /\ fnOut[1].error[1].Code = KindTable[fnIn.kind][1]

\* response.Error has answered a NotFound error
C3_Witness ==
    /\ fnIn.fn = "Error"
    /\ fnIn.kind = "NotFound"
    /\ fnOut # Nil
    /\ fnOut[1].status = 404

-----------------------------------------------------------------------------
(* The category and division features: tables, repositories.               *)

CrudFeatures == {"category", "division"}

Features == CrudFeatures \cup {"user"}

NameMinLen == 2
CategoryNameMaxLen == 20
DivisionNameMaxLen == 50

NameMaxLen(f) == IF f = "category" THEN CategoryNameMaxLen ELSE DivisionNameMaxLen

\* the resource's name in messages ("Category"); repository errors use f itself
Resource(f) ==
    IF f = "category" THEN "Category" ELSE IF f = "division" THEN "Division" ELSE "User"

\* categories has a unique index on LOWER(name) besides UNIQUE(name);
\* divisions has UNIQUE(name) only.
HasLowerUniqueIndex(f) == f = "category"

\* CURRENT_TIMESTAMP of every INSERT of a run, as a date
Today == [y |-> 2026, m |-> 2, d |-> 25]

Row(id, name, isActive) ==
    [id |-> id, name |-> name, isActive |-> isActive, createdAt |-> Today]

ErrNoRows == PlainError(Txt("sql: no rows in result set", <<>>))

\* the error of a statement the database could not run
DriverError == PlainError(Txt("driver: bad connection", <<>>))

Wrapped(fmt, f) == PlainError(Txt(fmt, <<f, DriverError>>))

RepoGetByIDNoRowsAsError(f, s, id, fault) ==
    IF fault \/ ~ \E r \in s : r.id = id
    THEN [row |-> Nil, err |-> Some(Wrapped("failed to get %s: %w", f))]
    ELSE [row |-> Some(CHOOSE r \in s : r.id = id), err |-> Nil]

\* SELECT ... WHERE id = $1; sql.ErrNoRows is reported as (nil, nil)
RepoGetByID(f, s, id, fault) ==
    IF fault THEN [row |-> Nil, err |-> Some(Wrapped("failed to get %s: %w", f))]
    ELSE IF \E r \in s : r.id = id
         THEN [row |-> Some(CHOOSE r \in s : r.id = id), err |-> Nil]
         ELSE [row |-> Nil, err |-> Nil]

GetByNameMatchesExact(s, name) == {r \in s : r.name = name}

\* WHERE LOWER(name) = LOWER($1)
GetByNameMatches(s, name) == {r \in s : Lower(r.name) = Lower(name)}

\* GetContext returns the first row the query yields: any of the matches
RepoGetByName(f, s, name, fault) ==
    IF fault THEN {[row |-> Nil, err |-> Some(Wrapped("failed to get %s: %w", f))]}
    ELSE IF GetByNameMatches(s, name) = {} THEN {[row |-> Nil, err |-> Nil]}
         ELSE {[row |-> Some(r), err |-> Nil] : r \in GetByNameMatches(s, name)}

RepoExists(f, s, id, fault) ==
    IF fault
    THEN [exists |-> FALSE,
          err |-> Some(Wrapped("failed to check %s existence: %w", f))]
    ELSE [exists |-> \E r \in s : r.id = id, err |-> Nil]

UniqueViolationNameOnly(f, s, name, selfId) ==
    \E r \in s : r.id # selfId /\ r.name = name

\* SQLSTATE 23505 for a row named name (other than row selfId itself)
UniqueViolation(f, s, name, selfId) ==
    \E r \in s :
        /\ r.id # selfId
        /\ \/ r.name = name
           \/ HasLowerUniqueIndex(f) /\ Lower(r.name) = Lower(name)

\* INSERT INTO t (name) VALUES ($1) RETURNING ...; id is nextval of the sequence
RepoCreate(f, s, id, name, fault) ==
    IF fault
    THEN [row |-> Nil, err |-> Some(Wrapped("failed to create %s: %w", f)),
          store |-> s]
    ELSE IF UniqueViolation(f, s, name, 0)
         THEN [row |-> Nil,
               err |-> Some(PlainError(Txt("%s with name '%s' already exists",
                                           <<f, name>>))),
               store |-> s]
         ELSE [row |-> Some(Row(id, name, TRUE)), err |-> Nil,
               store |-> s \cup {Row(id, name, TRUE)}]

\* UPDATE t SET name = $1, is_active = $2 WHERE id = $3 RETURNING ...
RepoUpdate(f, s, id, name, isActive, fault) ==
    IF fault
    THEN [row |-> Nil, err |-> Some(Wrapped("failed to update %s: %w", f)),
          store |-> s]
    ELSE IF ~ \E r \in s : r.id = id
         THEN [row |-> Nil, err |-> Nil, store |-> s]
         ELSE IF UniqueViolation(f, s, name, id)
              THEN [row |-> Nil,
                    err |-> Some(PlainError(
                                Txt("%s with name '%s' already exists",
                                    <<f, name>>))),
                    store |-> s]
              ELSE LET old == CHOOSE r \in s : r.id = id
                       new == [old EXCEPT !.name = name, !.isActive = isActive]
                   IN  [row |-> Some(new), err |-> Nil,
                        store |-> (s \ {old}) \cup {new}]

\* DELETE FROM t WHERE id = $1
RepoDelete(f, s, id, fault) ==
    IF fault
    THEN [err |-> Some(Wrapped("failed to delete %s: %w", f)), store |-> s]
    ELSE IF ~ \E r \in s : r.id = id
         THEN [err |-> Some(ErrNoRows), store |-> s]
         ELSE [err |-> Nil, store |-> {r \in s : r.id # id}]

-----------------------------------------------------------------------------
(* Dates and list filters.                                                 *)

Digits == <<"0", "1", "2", "3", "4", "5", "6", "7", "8", "9">>

IsDigit(c) == \E i \in 1 .. 10 : Digits[i] = c

DigitVal(c) == (CHOOSE i \in 1 .. 10 : Digits[i] = c) - 1

Str_date_today == <<"2", "0", "2", "6", "-", "0", "2", "-", "2", "5">>
Str_date_bad == <<"2", "0", "2", "6", "-", "2", "-", "2", "5">>

DaysIn(y, m) ==
    IF m \in {4, 6, 9, 11} THEN 30
    ELSE IF m # 2 THEN 31
    ELSE IF (y % 4 = 0 /\ y % 100 # 0) \/ y % 400 = 0 THEN 29 ELSE 28

\* time.Parse("2006-01-02", s): Nil when s is not such a date
TimeParse(s) ==
    IF /\ Len(s) = 10
       /\ \A i \in {1, 2, 3, 4, 6, 7, 9, 10} : IsDigit(s[i])
       /\ s[5] = "-" /\ s[8] = "-"
    THEN LET y == 1000 * DigitVal(s[1]) + 100 * DigitVal(s[2])
                  + 10 * DigitVal(s[3]) + DigitVal(s[4])
             m == 10 * DigitVal(s[6]) + DigitVal(s[7])
             d == 10 * DigitVal(s[9]) + DigitVal(s[10])
         IN  IF m \in 1 .. 12 /\ d \in 1 .. DaysIn(y, m)
             THEN Some([y |-> y, m |-> m, d |-> d])
             ELSE Nil
    ELSE Nil

\* response.ParseDate
ParseDate(dateStr) ==
    IF TrimSpace(dateStr) = <<>> THEN [date |-> Nil, err |-> Nil]
    ELSE IF TimeParse(TrimSpace(dateStr)) = Nil
         THEN [date |-> Nil,
               err |-> Some(BadRequest(Txt("Date must use YYYY-MM-DD format", <<>>)))]
         ELSE [date |-> TimeParse(TrimSpace(dateStr)), err |-> Nil]

\* GetCategoriesQuery.Normalize / GetDivisionsQuery.Normalize
Normalize(q) ==
    LET p == NormalizePagination(q)
        d == ParseDate(q.CreatedAt)
    IN  IF d.err # Nil THEN [filter |-> Nil, err |-> d.err]
        ELSE [filter |-> Some([Page |-> p.page, Limit |-> p.limit,
                               Offset |-> p.offset, Name |-> TrimSpace(q.Name),
                               IsActive |-> q.IsActive, CreatedAt |-> d.date]),
              err |-> Nil]

\* the WHERE clause of buildCategoryFilterWhereClause, on one row
MatchesFilter(r, filter) ==
    /\ filter.Name # <<>> => ILike(r.name, <<"%">> \o filter.Name \o <<"%">>)
    /\ filter.IsActive # Nil => r.isActive = filter.IsActive[1]
    /\ filter.CreatedAt # Nil => r.createdAt = filter.CreatedAt[1]

RECURSIVE OrderDesc(_)
\* ORDER BY created_at DESC, id DESC
OrderDesc(S) ==
    IF S = {} THEN <<>>
    ELSE LET top == CHOOSE r \in S : \A q \in S : q.id <= r.id
         IN  <<top>> \o OrderDesc(S \ {top})

Min(a, b) == IF a < b THEN a ELSE b

\* a Go slice: nil, or its elements
Slice(isNil, elems) == [isNil |-> isNil, elems |-> elems]

-----------------------------------------------------------------------------
(* The users table and the user DTOs.                                      *)

Str_xx == <<"x", "x">>
Str_sp == <<" ">>
Str_sp_1 == <<" ", "1">>
Str_ADMIN == <<"A", "D", "M", "I", "N">>
Str_IT == <<"I", "T">>
Str_STAFF == <<"S", "T", "A", "F", "F">>
Str_it == <<"i", "t">>
Str_sp_IT_sp == <<" ", "I", "T", " ">>
Str_sp_ADMIN == <<" ", "A", "D", "M", "I", "N">>
Str_email == <<"a", "@", "b", ".", "a", "b">>
Str_EMAIL == <<"A", "@", "B", ".", "A", "B">>
Str_email_b == <<"b", "@", "b", ".", "a", "b">>

ValidRoles == {Str_ADMIN, Str_IT, Str_STAFF}

\* the divisions table while the user endpoints run: division 1 is active,
\* division 2 is not, there is no other
UserDivisions == {Row(1, Str_ab, TRUE), Row(2, Str_xx, FALSE)}

BaseURL == "http://localhost:8080"

\* a row of users; avatarURL and phone are nullable columns
UserRow(id, name, email, password, avatarURL, phone, role, divisionId, isActive) ==
    [id |-> id, name |-> name, email |-> email, password |-> password,
     avatarURL |-> avatarURL, phone |-> phone, role |-> role,
     divisionId |-> divisionId, isActive |-> isActive, createdAt |-> Today]

\* d.name of INNER JOIN divisions d ON u.division_id = d.id (the foreign
\* key keeps the division of every user present)
DivisionName(u) == (CHOOSE d \in UserDivisions : d.id = u.divisionId).name

buildFullURL(relativePath, baseURL) ==
    IF relativePath = Nil \/ relativePath[1] = <<>> THEN Nil
    ELSE Some([base |-> baseURL, path |-> relativePath[1]])

ToUserResponse(u, baseURL) ==
    [ID |-> u.id, Name |-> u.name, Email |-> u.email,
     AvatarURL |-> buildFullURL(u.avatarURL, baseURL), Phone |-> u.phone,
     Role |-> u.role, Division |-> [ID |-> u.divisionId, Name |-> DivisionName(u)],
     IsActive |-> u.isActive, CreatedAt |-> u.createdAt]

\* GetUsersQuery.Normalize
UserNormalize(q) ==
    LET p == NormalizePagination(q)
    IN  [filter |-> Some([Page |-> p.page, Limit |-> p.limit, Offset |-> p.offset,
                          Name |-> TrimSpace(q.Name), Role |-> TrimSpace(q.Role),
                          DivisionID |-> q.DivisionID, IsActive |-> q.IsActive]),
         err |-> Nil]

\* the WHERE clause of buildUserFilterWhereClause, on one row
UserMatchesFilter(r, filter) ==
    /\ filter.Name # <<>> => ILike(r.name, <<"%">> \o filter.Name \o <<"%">>)
    /\ filter.Role # <<>> => r.role = filter.Role
    /\ filter.DivisionID > 0 => r.divisionId = filter.DivisionID
    /\ filter.IsActive # Nil => r.isActive = filter.IsActive[1]

Matches(f, r, filter) ==
    IF f = "user" THEN UserMatchesFilter(r, filter) ELSE MatchesFilter(r, filter)

RepoCountUnfiltered(f, s, filter, fault) ==
    IF fault THEN [n |-> 0, err |-> Some(Wrapped("failed to count %s: %w", f))]
    ELSE [n |-> Cardinality(s), err |-> Nil]

\* repository.GetAll: SELECT COUNT(*) FROM t <whereClause>
RepoCount(f, s, filter, fault) ==
    IF fault THEN [n |-> 0, err |-> Some(Wrapped("failed to count %s: %w", f))]
    ELSE [n |-> Cardinality({r \in s : Matches(f, r, filter)}), err |-> Nil]

SelectPageNoLimit(f, s, filter, fault) ==
    LET all == OrderDesc({r \in s : Matches(f, r, filter)})
    IN  [rows |-> Slice(FALSE, SubSeq(all, Min(filter.Offset, Len(all)) + 1, Len(all))),
         err |-> Nil]

\* SELECT ... LIMIT $n OFFSET $m, and the nil slice made empty
SelectPage(f, s, filter, fault) ==
    IF fault
    THEN [rows |-> Slice(TRUE, <<>>), err |-> Some(Wrapped("failed to get %s: %w", f))]
    ELSE LET all == OrderDesc({r \in s : Matches(f, r, filter)})
             page == SubSeq(all, filter.Offset + 1,
                            Min(filter.Offset + filter.Limit, Len(all)))
             scanned == Slice(page = <<>>, page)
         IN  [rows |-> IF scanned.isNil THEN Slice(FALSE, <<>>) ELSE scanned,
              err |-> Nil]

ToResponse(r) ==
    [ID |-> r.id, Name |-> r.name, IsActive |-> r.isActive, CreatedAt |-> r.createdAt]

\* ToCategoryResponse / ToDivisionResponse / ToUserResponse
ResponseOf(f, r) == IF f = "user" THEN ToUserResponse(r, BaseURL) ELSE ToResponse(r)

\* response.MapResponses: make([]R, len(items)) is never nil
MapResponses(f, items) ==
    Slice(FALSE, [i \in 1 .. Len(items.elems) |-> ResponseOf(f, items.elems[i])])

ListResponse(items, page, limit, totalItems) ==
    [Items |-> items,
     Pagination |-> [Page |-> page, Limit |-> limit, TotalItems |-> totalItems,
                     TotalPages |-> CalculateTotalPages(totalItems, limit)]]

-----------------------------------------------------------------------------
(* Requests.  A client has at most one request in flight; every            *)
(* repository call of a request is one database statement and one step, so *)
(* the statements of concurrent requests interleave freely.                *)

IdleReq ==
    [op |-> "idle", pc |-> "idle", id |-> 0, body |-> Nil, filter |-> Nil,
     total |-> 0, old |-> Nil, svcErr |-> Nil, resp |-> Nil, calls |-> 0,
     vlog |-> <<>>, file |-> Nil, unparsed |-> ""]

NewReq(op, id, body) ==
    [IdleReq EXCEPT !.op = op, !.pc = "start", !.id = id, !.body = Some(body)]

\* the service returned err and the handler answered response.Error(err)
Fail(r, err) ==
    [r EXCEPT !.pc = "done", !.svcErr = Some(err), !.resp = Some(Error(err))]

\* the service returned a value and the handler answered resp
Finish(r, resp) == [r EXCEPT !.pc = "done", !.resp = Some(resp)]

At(r, pc) == [r EXCEPT !.pc = pc]

\* one more repository call made
Called(r) == [r EXCEPT !.calls = @ + 1]

\* A response is read by its client before any other step is taken: the
\* client's return to idle is local and commutes with every other step.
Quiet == \A d \in DOMAIN req : req[d].pc # "done"

Running(c, pc) == Quiet /\ req[c].pc = pc

CanStart(c) == Running(c, "idle")

FaultChoices == IF dbFaulty THEN {FALSE, TRUE} ELSE {FALSE}

\* inserts still to come from the requests in flight
PendingInserts ==
    Cardinality({c \in DOMAIN req : req[c].pc \in {"create_getByName", "create_insert",
                                                    "ucreate_division", "ucreate_getByEmail",
                                                    "ucreate_insert"}})

NameInputs(f) == {Str_a, Str_sp_a, Str_ab, Str_AB}

IdInputs == 0 .. MaxId

UpdateBodies(f) ==
    {[Name |-> n, IsActive |-> TRUE] : n \in NameInputs(f)}
    \cup {[Name |-> Str_ab, IsActive |-> FALSE]}

Query(page, limit, name, isActive, createdAt) ==
    [Page |-> page, Limit |-> limit, Name |-> name, IsActive |-> isActive,
     CreatedAt |-> createdAt]

QueryInputs ==
    {Query(-1, 1, <<>>, Nil, <<>>), Query(2, 1, <<>>, Nil, <<>>),
     Query(0, 101, <<>>, Nil, <<>>), Query(1, -1, Str_b, Nil, <<>>),
     Query(0, 0, <<>>, Some(FALSE), Str_date_today),
     Query(0, 0, <<>>, Nil, Str_date_bad), Query(0, 0, Str_us_b, Nil, <<>>)}

\* the clients that also send GetAll and GetByID requests
Readers == {"c1"}

UserQuery(page, limit, name, role, divisionId, isActive) ==
    [Page |-> page, Limit |-> limit, Name |-> name, Role |-> role,
     DivisionID |-> divisionId, IsActive |-> isActive]

UserQueryInputs ==
    {UserQuery(-1, 1, <<>>, <<>>, 0, Nil), UserQuery(2, 1, <<>>, <<>>, 0, Nil),
     UserQuery(0, 101, <<>>, <<>>, 0, Nil), UserQuery(1, -1, Str_b, <<>>, 0, Nil),
     UserQuery(0, 0, <<>>, Str_sp_IT_sp, 1, Some(TRUE)),
     UserQuery(0, 0, Str_us_b, <<>>, 0, Nil)}

QueryInputsOf(f) == IF f = "user" THEN UserQueryInputs ELSE QueryInputs

NormalizeOf(f, q) == IF f = "user" THEN UserNormalize(q) ELSE Normalize(q)

\* CreateCategoryRequest.Validate, UpdateCategoryRequest.Validate and the
\* division's: the validator after its checks
NameValidator(f, body) ==
    ValidateString(NewValidator, "name", body.Name, TRUE, NameMinLen, NameMaxLen(f))

Validate(f, body) == ToAppError(NameValidator(f, body))

-----------------------------------------------------------------------------
(* category / division service: error translation.                         *)

RepoErrorUntranslated(f, what, err) == err

\* a failed read: logged, answered as Internal("Failed to <what> <resource>")
RepoError(f, what, err) == Internal(Txt("Failed to %s %s", <<what, f>>))

\* a failed INSERT or UPDATE
WriteError(f, what, err) ==
    IF ContainsAlreadyExists(ErrorText(err)) THEN AlreadyExists(Resource(f))
    ELSE Internal(Txt("Failed to %s %s", <<what, f>>))

\* a failed DELETE
DeleteError(f, err) ==
    IF err = ErrNoRows THEN NotFound(Resource(f))
    ELSE Internal(Txt("Failed to delete %s: %v", <<f, err>>))

-----------------------------------------------------------------------------
(* category / division service and handler, step by step.                  *)

\* Handler.Create, service.Create up to its first repository call
StartCreate(c) ==
    /\ feature \in CrudFeatures
    /\ "Create" \in endpoints
    /\ CanStart(c)
    /\ nextId + PendingInserts <= MaxId
    /\ \E name \in NameInputs(feature) :
          LET r == [NewReq("Create", 0, [Name |-> name])
                       EXCEPT !.vlog = NameValidator(feature, [Name |-> name]).log]
              verr == Validate(feature, [Name |-> name])
          IN  req' = [req EXCEPT ![c] =
                         IF verr # Nil THEN Fail(r, verr[1])
                         ELSE At(r, "create_getByName")]
    /\ UNCHANGED <<fnIn, fnOut, feature, store, nextId, deleted, dbFaulty,
                   files, nextFile, endpoints>>

\* service.Create: existing, err := s.repo.GetByName(ctx, name)
CreateGetByName(c) ==
    /\ feature \in CrudFeatures
    /\ Running(c, "create_getByName")
    /\ \E fault \in FaultChoices :
       \E res \in RepoGetByName(feature, store, TrimSpace(req[c].body[1].Name), fault) :
          req' = [req EXCEPT ![c] =
                     IF res.err # Nil
                     THEN Fail(Called(@), RepoError(feature, "create", res.err[1]))
                     ELSE IF res.row # Nil
                          THEN Fail(Called(@), AlreadyExists(Resource(feature)))
                          ELSE At(Called(@), "create_insert")]
    /\ UNCHANGED <<fnIn, fnOut, feature, store, nextId, deleted, dbFaulty,
                   files, nextFile, endpoints>>

\* service.Create: category, err := s.repo.Create(ctx, name)
CreateInsert(c) ==
    /\ feature \in CrudFeatures
    /\ Running(c, "create_insert")
    /\ \E fault \in FaultChoices :
          LET res == RepoCreate(feature, store, nextId,
                                TrimSpace(req[c].body[1].Name), fault)
          IN  /\ store' = res.store
              /\ nextId' = IF fault THEN nextId ELSE nextId + 1
              /\ req' = [req EXCEPT ![c] =
                            IF res.err # Nil
                            THEN Fail(Called(@), WriteError(feature, "create", res.err[1]))
                            ELSE Finish(Called(@),
                                        Created("created successfully",
                                                ToResponse(res.row[1])))]
    /\ UNCHANGED <<fnIn, fnOut, feature, deleted, dbFaulty, files, nextFile, endpoints>>

\* Handler.Update, service.Update up to its first repository call
StartUpdate(c) ==
    /\ feature \in CrudFeatures
    /\ "Update" \in endpoints
    /\ CanStart(c)
    /\ \E id \in IdInputs, body \in UpdateBodies(feature) :
          LET r == NewReq("Update", id, body)
              validated == [r EXCEPT !.vlog = NameValidator(feature, body).log]
              verr == Validate(feature, body)
          IN  req' = [req EXCEPT ![c] =
                         IF id <= 0
                         THEN Fail(r, BadRequest(Txt("Invalid %s ID", <<feature>>)))
                         ELSE IF verr # Nil THEN Fail(validated, verr[1])
                              ELSE At(validated, "update_exists")]
    /\ UNCHANGED <<fnIn, fnOut, feature, store, nextId, deleted, dbFaulty,
                   files, nextFile, endpoints>>

\* service.Update: exists, err := s.repo.Exists(ctx, id)
UpdateExists(c) ==
    /\ feature \in CrudFeatures
    /\ Running(c, "update_exists")
    /\ \E fault \in FaultChoices :
          LET res == RepoExists(feature, store, req[c].id, fault)
          IN  req' = [req EXCEPT ![c] =
                         IF res.err # Nil
                         THEN Fail(Called(@), RepoError(feature, "update", res.err[1]))
                         ELSE IF ~ res.exists
                              THEN Fail(Called(@), NotFound(Resource(feature)))
                              ELSE At(Called(@), "update_getByName")]
    /\ UNCHANGED <<fnIn, fnOut, feature, store, nextId, deleted, dbFaulty,
                   files, nextFile, endpoints>>

\* service.Update: existing, err := s.repo.GetByName(ctx, name)
UpdateGetByName(c) ==
    /\ feature \in CrudFeatures
    /\ Running(c, "update_getByName")
    /\ \E fault \in FaultChoices :
       \E res \in RepoGetByName(feature, store, TrimSpace(req[c].body[1].Name), fault) :
          req' = [req EXCEPT ![c] =
                     IF res.err # Nil
                     THEN Fail(Called(@), RepoError(feature, "update", res.err[1]))
                     ELSE IF res.row # Nil /\ res.row[1].id # @.id
                          THEN Fail(Called(@), AlreadyExists(Resource(feature)))
                          ELSE At(Called(@), "update_write")]
    /\ UNCHANGED <<fnIn, fnOut, feature, store, nextId, deleted, dbFaulty,
                   files, nextFile, endpoints>>

\* service.Update: category, err := s.repo.Update(ctx, id, name, ...)
\* (the service snapshot passes id and name; the repository also takes the
\* request's isActive)
UpdateWrite(c) ==
    /\ feature \in CrudFeatures
    /\ Running(c, "update_write")
    /\ \E fault \in FaultChoices :
          LET res == RepoUpdate(feature, store, req[c].id,
                                TrimSpace(req[c].body[1].Name),
                                req[c].body[1].IsActive, fault)
          IN  /\ store' = res.store
              /\ req' = [req EXCEPT ![c] =
                            IF res.err # Nil
                            THEN Fail(Called(@), WriteError(feature, "update", res.err[1]))
                            ELSE IF res.row = Nil
                                 THEN Fail(Called(@), NotFound(Resource(feature)))
                                 ELSE Finish(Called(@),
                                             OK("updated successfully",
                                                ToResponse(res.row[1])))]
    /\ UNCHANGED <<fnIn, fnOut, feature, nextId, deleted, dbFaulty, files,
                   nextFile, endpoints>>

\* Handler.Delete, service.Delete up to its first repository call
StartDelete(c) ==
    /\ feature \in CrudFeatures
    /\ "Delete" \in endpoints
    /\ CanStart(c)
    /\ \E id \in IdInputs :
          LET r == NewReq("Delete", id, [Name |-> <<>>])
          IN  req' = [req EXCEPT ![c] =
                         IF id <= 0
                         THEN Fail(r, BadRequest(Txt("Invalid %s ID", <<feature>>)))
                         ELSE At(r, "delete_exists")]
    /\ UNCHANGED <<fnIn, fnOut, feature, store, nextId, deleted, dbFaulty,
                   files, nextFile, endpoints>>

\* service.Delete: exists, err := s.repo.Exists(ctx, id)
DeleteExists(c) ==
    /\ feature \in CrudFeatures
    /\ Running(c, "delete_exists")
    /\ \E fault \in FaultChoices :
          LET res == RepoExists(feature, store, req[c].id, fault)
          IN  req' = [req EXCEPT ![c] =
                         IF res.err # Nil
                         THEN Fail(Called(@), RepoError(feature, "delete", res.err[1]))
                         ELSE IF ~ res.exists
                              THEN Fail(Called(@), NotFound(Resource(feature)))
                              ELSE At(Called(@), "delete_exec")]
    /\ UNCHANGED <<fnIn, fnOut, feature, store, nextId, deleted, dbFaulty,
                   files, nextFile, endpoints>>

\* service.Delete: err = s.repo.Delete(ctx, id)
DeleteExec(c) ==
    /\ feature \in CrudFeatures
    /\ Running(c, "delete_exec")
    /\ \E fault \in FaultChoices :
          LET res == RepoDelete(feature, store, req[c].id, fault)
          IN  /\ store' = res.store
              /\ deleted' = IF res.err = Nil THEN deleted \cup {req[c].id} ELSE deleted
              /\ req' = [req EXCEPT ![c] =
                            IF res.err # Nil
                            THEN Fail(Called(@), DeleteError(feature, res.err[1]))
                            ELSE Finish(Called(@),
                                        Response(StatusOK, TRUE, "deleted successfully",
                                                 Nil, Nil))]
    /\ UNCHANGED <<fnIn, fnOut, feature, nextId, dbFaulty, files, nextFile, endpoints>>

\* Handler.GetByID, service.GetByID up to its repository call
StartGetByID(c) ==
    /\ feature \in Features
    /\ "GetByID" \in endpoints
    /\ c \in Readers
    /\ CanStart(c)
    /\ \E id \in IdInputs :
          LET r == NewReq("GetByID", id, [Name |-> <<>>])
          IN  req' = [req EXCEPT ![c] =
                         IF id <= 0
                         THEN Fail(r, BadRequest(Txt("Invalid %s ID", <<feature>>)))
                         ELSE At(r, "get_query")]
    /\ UNCHANGED <<fnIn, fnOut, feature, store, nextId, deleted, dbFaulty,
                   files, nextFile, endpoints>>

\* service.GetByID: category, err := s.repo.GetByID(ctx, id)
GetByIDQuery(c) ==
    /\ feature \in Features
    /\ Running(c, "get_query")
    /\ \E fault \in FaultChoices :
          LET res == RepoGetByID(feature, store, req[c].id, fault)
          IN  req' = [req EXCEPT ![c] =
                         IF res.err # Nil
                         THEN Fail(Called(@), RepoError(feature, "retrieve", res.err[1]))
                         ELSE IF res.row = Nil
                              THEN Fail(Called(@), NotFound(Resource(feature)))
                              ELSE Finish(Called(@),
                                          OK("retrieved successfully",
                                             ResponseOf(feature, res.row[1])))]
    /\ UNCHANGED <<fnIn, fnOut, feature, store, nextId, deleted, dbFaulty,
                   files, nextFile, endpoints>>

\* Handler.GetAll, service.GetAll up to the repository's COUNT
StartGetAll(c) ==
    /\ feature \in Features
    /\ "GetAll" \in endpoints
    /\ c \in Readers
    /\ CanStart(c)
    /\ \E q \in QueryInputsOf(feature) :
          LET r == NewReq("GetAll", 0, q)
              n == NormalizeOf(feature, q)
          IN  req' = [req EXCEPT ![c] =
                         IF n.err # Nil THEN Fail(r, n.err[1])
                         ELSE [At(r, "list_count") EXCEPT !.filter = n.filter]]
    /\ UNCHANGED <<fnIn, fnOut, feature, store, nextId, deleted, dbFaulty,
                   files, nextFile, endpoints>>

\* repository.GetAll: SELECT COUNT(*) FROM t WHERE ...
GetAllCount(c) ==
    /\ feature \in Features
    /\ Running(c, "list_count")
    /\ \E fault \in FaultChoices :
          LET res == RepoCount(feature, store, req[c].filter[1], fault)
          IN  req' = [req EXCEPT ![c] =
                         IF res.err # Nil
                         THEN Fail(Called(@), RepoError(feature, "retrieve", res.err[1]))
                         ELSE [At(Called(@), "list_select") EXCEPT !.total = res.n]]
    /\ UNCHANGED <<fnIn, fnOut, feature, store, nextId, deleted, dbFaulty,
                   files, nextFile, endpoints>>

\* repository.GetAll: SELECT ... LIMIT/OFFSET, then service.GetAll's response
GetAllSelect(c) ==
    /\ feature \in Features
    /\ Running(c, "list_select")
    /\ \E fault \in FaultChoices :
          LET f == req[c].filter[1]
              res == SelectPage(feature, store, f, fault)
          IN  req' = [req EXCEPT ![c] =
                         IF res.err # Nil
                         THEN Fail(@, RepoError(feature, "retrieve", res.err[1]))
                         ELSE Finish(@,
                                     OK("retrieved successfully",
                                        ListResponse(MapResponses(feature, res.rows), f.Page,
                                                     f.Limit, @.total)))]
    /\ UNCHANGED <<fnIn, fnOut, feature, store, nextId, deleted, dbFaulty,
                   files, nextFile, endpoints>>

\* the client has read the response
Reply(c) ==
    /\ req[c].pc = "done"
    /\ req' = [req EXCEPT ![c] = IdleReq]
    /\ UNCHANGED <<fnIn, fnOut, feature, store, nextId, deleted, dbFaulty,
                   files, nextFile, endpoints>>

CrudNext ==
    \/ \E c \in DOMAIN req : StartCreate(c)
    \/ \E c \in DOMAIN req : CreateGetByName(c)
    \/ \E c \in DOMAIN req : CreateInsert(c)
    \/ \E c \in DOMAIN req : StartUpdate(c)
    \/ \E c \in DOMAIN req : UpdateExists(c)
    \/ \E c \in DOMAIN req : UpdateGetByName(c)
    \/ \E c \in DOMAIN req : UpdateWrite(c)
    \/ \E c \in DOMAIN req : StartDelete(c)
    \/ \E c \in DOMAIN req : DeleteExists(c)
    \/ \E c \in DOMAIN req : DeleteExec(c)
    \/ \E c \in DOMAIN req : StartGetByID(c)
    \/ \E c \in DOMAIN req : GetByIDQuery(c)
    \/ \E c \in DOMAIN req : StartGetAll(c)
    \/ \E c \in DOMAIN req : GetAllCount(c)
    \/ \E c \in DOMAIN req : GetAllSelect(c)
    \/ \E c \in DOMAIN req : Reply(c)

-----------------------------------------------------------------------------
(* user: validation, the division collaborator, password hashing.          *)

UserNameMinLen == 2
UserNameMaxLen == 50
EmailMinLen == 5
EmailMaxLen == 255
PasswordMinLen == 6
PasswordMaxLen == 255
BcryptMaxLen == 72
PhoneColumnLen == 15
MaxImageSize == 5242880

Letters == {LowerLetters[i] : i \in DOMAIN LowerLetters}
           \cup {UpperLetters[i] : i \in DOMAIN UpperLetters}

DigitChars == {Digits[i] : i \in DOMAIN Digits}

\* ^[a-zA-Z0-9._%+-]+@[a-zA-Z0-9.-]+\.[a-zA-Z]{2,}$
ValidateEmail(value) ==
    \E i \in 2 .. Len(value), j \in 4 .. Len(value) - 2 :
        /\ j >= i + 2
        /\ value[i] = "@"
        /\ value[j] = "."
        /\ \A k \in 1 .. i - 1 :
              value[k] \in Letters \cup DigitChars \cup {".", "_", "%", "+", "-"}
        /\ \A k \in i + 1 .. j - 1 : value[k] \in Letters \cup DigitChars \cup {".", "-"}
        /\ \A k \in j + 1 .. Len(value) : value[k] \in Letters

\* the role and divisionId checks shared by both user requests
RoleAndDivisionChecks(v, r) ==
    LET role == TrimSpace(r.Role)
        v1 == IF role = <<>> THEN AddError(v, "role", Txt("Required", <<>>))
              ELSE IF role \notin ValidRoles
                   THEN AddError(v, "role", Txt("Must be one of: ADMIN, IT, STAFF", <<>>))
                   ELSE v
    IN  IF r.DivisionID <= 0
        THEN AddError(v1, "divisionId", Txt("Required and must be greater than 0", <<>>))
        ELSE v1

\* CreateUserRequest.Validate: the validator after its checks
CreateUserValidator(r) ==
    LET v1 == ValidateString(NewValidator, "name", r.Name, TRUE,
                             UserNameMinLen, UserNameMaxLen)
        v2 == ValidateString(v1, "email", r.Email, TRUE, EmailMinLen, EmailMaxLen)
        v3 == IF r.Email # <<>> /\ ~ ValidateEmail(r.Email)
              THEN AddError(v2, "email", Txt("Must be a valid email address", <<>>))
              ELSE v2
        v4 == ValidateString(v3, "password", r.Password, TRUE,
                             PasswordMinLen, PasswordMaxLen)
    IN  RoleAndDivisionChecks(v4, r)

\* UpdateUserRequest.Validate: the validator after its checks
UpdateUserValidator(r) ==
    RoleAndDivisionChecks(ValidateString(NewValidator, "name", r.Name, TRUE,
                                         UserNameMinLen, UserNameMaxLen), r)

\* division.Service.ValidateForAssignment: nil when the division may be
\* given to a user, an AppError of the division service otherwise
ValidateForAssignment(divisions, divisionID, fault) ==
    IF fault THEN Some(Internal(Txt("Failed to validate division", <<>>)))
    ELSE IF ~ \E d \in divisions : d.id = divisionID THEN Some(NotFound("Division"))
    ELSE IF ~ (CHOOSE d \in divisions : d.id = divisionID).isActive
         THEN Some(BadRequest(Txt("Division is not active", <<>>)))
         ELSE Nil

\* a bcrypt hash of password
Bcrypt(password) == [bcrypt |-> password]

\* hashPassword: bcrypt.GenerateFromPassword either refuses a password of
\* more than 72 bytes or hashes its first 72 bytes, by the library's version
hashPassword(password) ==
    IF Len(password) > BcryptMaxLen
    THEN {[hash |-> Nil,
           err |-> Some(PlainError(Txt("bcrypt: password length exceeds 72 bytes", <<>>)))],
          [hash |-> Some(Bcrypt(SubSeq(password, 1, BcryptMaxLen))), err |-> Nil]}
    ELSE {[hash |-> Some(Bcrypt(password)), err |-> Nil]}

-----------------------------------------------------------------------------
(* user repository.                                                        *)

\* WHERE LOWER(email) = LOWER($1)
RepoGetByEmail(s, email, fault) ==
    IF fault THEN {[row |-> Nil, err |-> Some(Wrapped("failed to get %s: %w", "user"))]}
    ELSE IF ~ \E r \in s : Lower(r.email) = Lower(email) THEN {[row |-> Nil, err |-> Nil]}
         ELSE {[row |-> Some(r), err |-> Nil] : r \in {u \in s : Lower(u.email) = Lower(email)}}

\* repository.Create: INSERT INTO users ... RETURNING id.  SQLSTATE 23505
\* comes from idx_users_email_lower_unique; any other refusal (the foreign
\* key on division_id, a value too long for its column) is a driver error.
RepoUserInsert(s, id, name, email, hash, avatarURL, phone, role, divisionID, fault) ==
    IF fault
    THEN [id |-> 0, err |-> Some(Wrapped("failed to create %s: %w", "user")), store |-> s]
    ELSE IF \E r \in s : Lower(r.email) = Lower(email)
         THEN [id |-> 0,
               err |-> Some(PlainError(Txt("user with email '%s' already exists",
                                           <<email>>))),
               store |-> s]
         ELSE IF \/ ~ \E d \in UserDivisions : d.id = divisionID
                 \/ Len(phone) > PhoneColumnLen
              THEN [id |-> 0, err |-> Some(Wrapped("failed to create %s: %w", "user")),
                    store |-> s]
              ELSE [id |-> id, err |-> Nil,
                    store |-> s \cup {UserRow(id, name, email, hash,
                                              Some(avatarURL), Some(phone), role,
                                              divisionID, TRUE)}]

\* repository.Update: UPDATE users SET name, phone, role, division_id,
\* is_active WHERE id = $6, and its RowsAffected
RepoUserUpdate(s, id, name, phone, role, divisionID, isActive, fault) ==
    IF fault
    THEN [affected |-> 0, err |-> Some(Wrapped("failed to update %s: %w", "user")),
          store |-> s]
    ELSE IF ~ \E r \in s : r.id = id THEN [affected |-> 0, err |-> Nil, store |-> s]
    ELSE IF \/ ~ \E d \in UserDivisions : d.id = divisionID
            \/ Len(phone) > PhoneColumnLen
         THEN [affected |-> 0, err |-> Some(Wrapped("failed to update %s: %w", "user")),
               store |-> s]
         ELSE LET old == CHOOSE r \in s : r.id = id
                  new == [old EXCEPT !.name = name, !.phone = Some(phone),
                                     !.role = role, !.divisionId = divisionID,
                                     !.isActive = isActive]
              IN  [affected |-> 1, err |-> Nil, store |-> (s \ {old}) \cup {new}]

\* repository.UpdateAvatar: UPDATE users SET avatar_url = $1 WHERE id = $2
RepoUpdateAvatar(s, id, avatarURL, fault) ==
    IF fault
    THEN [affected |-> 0, err |-> Some(Wrapped("failed to update avatar: %w", "user")),
          store |-> s]
    ELSE IF ~ \E r \in s : r.id = id THEN [affected |-> 0, err |-> Nil, store |-> s]
    ELSE LET old == CHOOSE r \in s : r.id = id
             new == [old EXCEPT !.avatarURL = Some(avatarURL)]
         IN  [affected |-> 1, err |-> Nil, store |-> (s \ {old}) \cup {new}]

-----------------------------------------------------------------------------
(* uploads.                                                                *)

AllowedImageExtensions == {".jpg", ".jpeg", ".png", ".webp"}

\* an uploaded file: its size and the lower-cased extension of its name
FileInputs ==
    {[Size |-> 1, Ext |-> ".png"], [Size |-> MaxImageSize + 1, Ext |-> ".png"],
     [Size |-> 1, Ext |-> ".gif"]}

ValidateImageFile(fileHeader) ==
    IF fileHeader.Size > MaxImageSize
    THEN Some(BadRequest(Txt("Image size exceeds maximum limit of 5MB", <<>>)))
    ELSE IF fileHeader.Ext \notin AllowedImageExtensions
         THEN Some(BadRequest(Txt("Invalid image type. Only jpg, jpeg, png, and webp are allowed", <<>>)))
         ELSE Nil

\* "/uploads/image/avatar/<UnixNano><ext>" of the n-th file saved
AvatarPath(n, ext) == <<"/uploads/image/avatar/", n, ext>>

\* uploads.SaveAvatarImage
SaveAvatarImage(fs, fileHeader, n, fault) ==
    IF ValidateImageFile(fileHeader) # Nil
    THEN [url |-> <<>>, err |-> ValidateImageFile(fileHeader), files |-> fs]
    ELSE IF fault
         THEN [url |-> <<>>,
               err |-> Some(PlainError(Txt("failed to save file: %w", <<DriverError>>))),
               files |-> fs]
         ELSE [url |-> AvatarPath(n, fileHeader.Ext), err |-> Nil,
               files |-> fs \cup {AvatarPath(n, fileHeader.Ext)}]

\* uploads.DeleteFile: the files afterwards (its error is only logged)
DeleteFile(fs, filePath, fault) ==
    IF filePath = <<>> \/ filePath \notin fs \/ fault THEN fs ELSE fs \ {filePath}

\* the file of a stored avatar_url is deleted when the url is not empty
DeleteAvatarOf(fs, user, fault) ==
    IF user.avatarURL # Nil /\ user.avatarURL[1] # <<>>
    THEN DeleteFile(fs, user.avatarURL[1], fault)
    ELSE fs

-----------------------------------------------------------------------------
(* user service and handler, step by step.                                 *)

MaxFiles == 2

Str_pw == Repeat("p", PasswordMinLen)
Str_pw_long == Repeat("p", BcryptMaxLen + 1)
Str_phone_long == Repeat("1", PhoneColumnLen + 1)

CreateUserRequest(name, email, password, role, divisionID) ==
    [Name |-> name, Email |-> email, Password |-> password, Role |-> role,
     DivisionID |-> divisionID]

UpdateUserRequest(name, phone, role, divisionID, isActive) ==
    [Name |-> name, Phone |-> phone, Role |-> role, DivisionID |-> divisionID,
     IsActive |-> isActive]

\* the bodies client c sends; the second client sends valid Creates only
UserCreateBodies(c) ==
    {CreateUserRequest(Str_ab, Str_email, Str_pw, Str_IT, 1),
     CreateUserRequest(Str_ab, Str_EMAIL, Str_pw, Str_sp_IT_sp, 1)}
    \cup (IF c \in Readers
          THEN {CreateUserRequest(Str_ab, Str_email_b, Str_pw, Str_STAFF, 1),
                CreateUserRequest(Str_sp, Str_a, <<>>, Str_it, 0),
                CreateUserRequest(Str_ab, Str_email, Str_pw, <<>>, 1),
                CreateUserRequest(Str_ab, Str_email, Str_pw, Str_IT, 2),
                CreateUserRequest(Str_ab, Str_email, Str_pw, Str_IT, 3),
                CreateUserRequest(Str_ab, Str_email, Str_pw_long, Str_IT, 1)}
          ELSE {})

\* the second client sends no user Update
UserUpdateBodies(c) ==
    IF c \in Readers
    THEN {UpdateUserRequest(Str_AB, Some(Str_sp_1), Str_sp_ADMIN, 1, Some(FALSE)),
          UpdateUserRequest(Str_ab, Nil, Str_IT, 1, Nil),
          UpdateUserRequest(Str_sp, Nil, Str_it, 0, Nil),
          UpdateUserRequest(Str_ab, Nil, Str_IT, 3, Nil),
          UpdateUserRequest(Str_ab, Some(Str_phone_long), Str_IT, 1, Nil)}
    ELSE {}

\* the clients that also upload avatars
AvatarClients == {"c1"}

\* the handler answered response.Error(err) before calling the service
Reject(r, err) == [r EXCEPT !.pc = "done", !.resp = Some(Error(err))]

\* the Recovery middleware's answer to a panic
PanicResponse ==
    Response(StatusInternalServerError, FALSE, "", Nil,
             Some([Code |-> "", Message |-> Txt("Internal server error", <<>>),
                   Details |-> Nil]))

\* the handler panicked (a nil pointer was dereferenced)
Panic(r) == [r EXCEPT !.pc = "done", !.resp = Some(PanicResponse)]

UserWriteErrorAlwaysInternal(err) ==
    Internal(Txt("Failed to %s %s", <<"create", "user">>))

\* service.Create: a failed repo.Create
UserWriteError(err) ==
    IF ContainsAlreadyExists(ErrorText(err)) THEN AlreadyExists("User with this email")
    ELSE Internal(Txt("Failed to %s %s", <<"create", "user">>))

RoleToStoreRaw(r) == r.Role

\* service.Create, service.Update: role := strings.TrimSpace(req.Role)
RoleToStore(r) == TrimSpace(r.Role)

\* Handler.Create, service.Create up to ValidateForAssignment
UserStartCreate(c) ==
    /\ feature = "user"
    /\ "Create" \in endpoints
    /\ CanStart(c)
    /\ nextId + PendingInserts <= MaxId
    /\ \E body \in UserCreateBodies(c) :
          LET r == [NewReq("Create", 0, body)
                       EXCEPT !.vlog = CreateUserValidator(body).log]
              verr == ToAppError(CreateUserValidator(body))
          IN  req' = [req EXCEPT ![c] =
                         IF verr # Nil THEN Fail(r, verr[1])
                         ELSE At(r, "ucreate_division")]
    /\ UNCHANGED <<fnIn, fnOut, feature, store, nextId, deleted, dbFaulty,
                   files, nextFile, endpoints>>

\* service.Create: s.divisionService.ValidateForAssignment(ctx, req.DivisionID)
UserCreateDivision(c) ==
    /\ feature = "user"
    /\ Running(c, "ucreate_division")
    /\ \E fault \in FaultChoices :
          LET err == ValidateForAssignment(UserDivisions, req[c].body[1].DivisionID, fault)
          IN  req' = [req EXCEPT ![c] =
                         IF err # Nil THEN Fail(Called(@), err[1])
                         ELSE At(Called(@), "ucreate_getByEmail")]
    /\ UNCHANGED <<fnIn, fnOut, feature, store, nextId, deleted, dbFaulty,
                   files, nextFile, endpoints>>

\* service.Create: s.repo.GetByEmail(ctx, email), then hashPassword
UserCreateGetByEmail(c) ==
    /\ feature = "user"
    /\ Running(c, "ucreate_getByEmail")
    /\ \E fault \in FaultChoices :
       \E res \in RepoGetByEmail(store, TrimSpace(req[c].body[1].Email), fault) :
       \E h \in hashPassword(req[c].body[1].Password) :
          req' = [req EXCEPT ![c] =
                     IF res.err # Nil
                     THEN Fail(Called(@), RepoError(feature, "create", res.err[1]))
                     ELSE IF res.row # Nil
                          THEN Fail(Called(@), AlreadyExists("User with this email"))
                          ELSE IF h.err # Nil
                               THEN Fail(Called(@), RepoError(feature, "create", h.err[1]))
                               ELSE [At(Called(@), "ucreate_insert") EXCEPT !.old = h.hash]]
    /\ UNCHANGED <<fnIn, fnOut, feature, store, nextId, deleted, dbFaulty,
                   files, nextFile, endpoints>>

\* repository.Create: the INSERT
UserCreateInsert(c) ==
    /\ feature = "user"
    /\ Running(c, "ucreate_insert")
    /\ \E fault \in FaultChoices :
          LET b == req[c].body[1]
              res == RepoUserInsert(store, nextId, TrimSpace(b.Name), TrimSpace(b.Email),
                                    req[c].old[1], <<>>, <<>>, RoleToStore(b),
                                    b.DivisionID, fault)
          IN  /\ store' = res.store
              /\ nextId' = IF fault THEN nextId ELSE nextId + 1
              /\ req' = [req EXCEPT ![c] =
                            IF res.err # Nil
                            THEN Fail(Called(@), UserWriteError(res.err[1]))
                            ELSE [At(Called(@), "ucreate_reload") EXCEPT !.id = res.id]]
    /\ UNCHANGED <<fnIn, fnOut, feature, deleted, dbFaulty, files, nextFile, endpoints>>

\* repository.Create: return r.GetByID(ctx, userID); service.Create reads
\* user.ID of the result without a nil check
UserCreateReload(c) ==
    /\ feature = "user"
    /\ Running(c, "ucreate_reload")
    /\ \E fault \in FaultChoices :
          LET res == RepoGetByID(feature, store, req[c].id, fault)
          IN  req' = [req EXCEPT ![c] =
                         IF res.err # Nil THEN Fail(@, UserWriteError(res.err[1]))
                         ELSE IF res.row = Nil THEN Panic(@)
                         ELSE Finish(@, Created("User created successfully",
                                                ToUserResponse(res.row[1], BaseURL)))]
    /\ UNCHANGED <<fnIn, fnOut, feature, store, nextId, deleted, dbFaulty,
                   files, nextFile, endpoints>>

\* Handler.Update, service.Update up to its first repository call
UserStartUpdate(c) ==
    /\ feature = "user"
    /\ "Update" \in endpoints
    /\ CanStart(c)
    /\ \E id \in IdInputs, body \in UserUpdateBodies(c) :
          LET r == NewReq("Update", id, body)
              validated == [r EXCEPT !.vlog = UpdateUserValidator(body).log]
              verr == ToAppError(UpdateUserValidator(body))
          IN  req' = [req EXCEPT ![c] =
                         IF id <= 0
                         THEN Fail(r, BadRequest(Txt("Invalid %s ID", <<feature>>)))
                         ELSE IF verr # Nil THEN Fail(validated, verr[1])
                              ELSE At(validated, "uupdate_exists")]
    /\ UNCHANGED <<fnIn, fnOut, feature, store, nextId, deleted, dbFaulty,
                   files, nextFile, endpoints>>

\* service.Update: exists, err := s.repo.Exists(ctx, id)
UserUpdateExists(c) ==
    /\ feature = "user"
    /\ Running(c, "uupdate_exists")
    /\ \E fault \in FaultChoices :
          LET res == RepoExists(feature, store, req[c].id, fault)
          IN  req' = [req EXCEPT ![c] =
                         IF res.err # Nil
                         THEN Fail(Called(@), RepoError(feature, "update", res.err[1]))
                         ELSE IF ~ res.exists THEN Fail(Called(@), NotFound("User"))
                         ELSE At(Called(@), "uupdate_division")]
    /\ UNCHANGED <<fnIn, fnOut, feature, store, nextId, deleted, dbFaulty,
                   files, nextFile, endpoints>>

\* service.Update: s.divisionService.ValidateForAssignment(ctx, req.DivisionID)
UserUpdateDivision(c) ==
    /\ feature = "user"
    /\ Running(c, "uupdate_division")
    /\ \E fault \in FaultChoices :
          LET err == ValidateForAssignment(UserDivisions, req[c].body[1].DivisionID, fault)
          IN  req' = [req EXCEPT ![c] =
                         IF err # Nil THEN Fail(Called(@), err[1])
                         ELSE At(Called(@), "uupdate_getByID")]
    /\ UNCHANGED <<fnIn, fnOut, feature, store, nextId, deleted, dbFaulty,
                   files, nextFile, endpoints>>

\* service.Update: currentUser, err := s.repo.GetByID(ctx, id)
UserUpdateGetByID(c) ==
    /\ feature = "user"
    /\ Running(c, "uupdate_getByID")
    /\ \E fault \in FaultChoices :
          LET res == RepoGetByID(feature, store, req[c].id, fault)
          IN  req' = [req EXCEPT ![c] =
                         IF res.err # Nil
                         THEN Fail(Called(@), RepoError(feature, "update", res.err[1]))
                         ELSE IF res.row = Nil THEN Fail(Called(@), NotFound("User"))
                         ELSE [At(Called(@), "uupdate_write") EXCEPT !.old = res.row]]
    /\ UNCHANGED <<fnIn, fnOut, feature, store, nextId, deleted, dbFaulty,
                   files, nextFile, endpoints>>

\* repository.Update: the UPDATE, with phone "" when the request has none
\* and the current is_active when the request has none
UserUpdateWrite(c) ==
    /\ feature = "user"
    /\ Running(c, "uupdate_write")
    /\ \E fault \in FaultChoices :
          LET b == req[c].body[1]
              phone == IF b.Phone # Nil THEN TrimSpace(b.Phone[1]) ELSE <<>>
              isActive == IF b.IsActive # Nil THEN b.IsActive[1]
                          ELSE req[c].old[1].isActive
              res == RepoUserUpdate(store, req[c].id, TrimSpace(b.Name), phone,
                                    RoleToStore(b), b.DivisionID, isActive, fault)
          IN  /\ store' = res.store
              /\ req' = [req EXCEPT ![c] =
                            IF res.err # Nil
                            THEN Fail(Called(@), RepoError(feature, "update", res.err[1]))
                            ELSE IF res.affected = 0 THEN Fail(Called(@), NotFound("User"))
                            ELSE At(Called(@), "uupdate_reload")]
    /\ UNCHANGED <<fnIn, fnOut, feature, nextId, deleted, dbFaulty, files,
                   nextFile, endpoints>>

\* repository.Update: return r.GetByID(ctx, id)
UserUpdateReload(c) ==
    /\ feature = "user"
    /\ Running(c, "uupdate_reload")
    /\ \E fault \in FaultChoices :
          LET res == RepoGetByID(feature, store, req[c].id, fault)
          IN  req' = [req EXCEPT ![c] =
                         IF res.err # Nil
                         THEN Fail(@, RepoError(feature, "update", res.err[1]))
                         ELSE IF res.row = Nil THEN Fail(@, NotFound("User"))
                         ELSE Finish(@, OK("User updated successfully",
                                           ToUserResponse(res.row[1], BaseURL)))]
    /\ UNCHANGED <<fnIn, fnOut, feature, store, nextId, deleted, dbFaulty,
                   files, nextFile, endpoints>>

\* Handler.UpdateAvatar: the file is saved, then service.UpdateAvatar runs up
\* to its first repository call; the handler deletes the new file when the
\* service fails
UserStartUpdateAvatar(c) ==
    /\ feature = "user"
    /\ "UpdateAvatar" \in endpoints
    /\ c \in AvatarClients
    /\ CanStart(c)
    /\ nextFile <= MaxFiles
    /\ \E id \in IdInputs, fileHeader \in FileInputs :
       \E fault \in FaultChoices, dfault \in FaultChoices :
          LET saved == SaveAvatarImage(files, fileHeader, nextFile, fault)
              r == [NewReq("UpdateAvatar", id, fileHeader) EXCEPT !.file = Some(saved.url)]
          IN  IF saved.err # Nil
              THEN /\ req' = [req EXCEPT ![c] = Reject(r, saved.err[1])]
                   /\ UNCHANGED <<files, nextFile>>
              ELSE /\ nextFile' = nextFile + 1
                   /\ IF id <= 0 \/ saved.url = <<>>
                      THEN /\ req' = [req EXCEPT ![c] =
                                         Fail(r, BadRequest(
                                                 IF id <= 0
                                                 THEN Txt("Invalid %s ID", <<feature>>)
                                                 ELSE Txt("Avatar URL is required", <<>>)))]
                           /\ files' = DeleteFile(saved.files, saved.url, dfault)
                      ELSE /\ req' = [req EXCEPT ![c] = At(r, "avatar_getByID")]
                           /\ files' = saved.files
    /\ UNCHANGED <<fnIn, fnOut, feature, store, nextId, deleted, dbFaulty, endpoints>>

\* service.UpdateAvatar: oldUser, err := s.repo.GetByID(ctx, id)
UserAvatarGetByID(c) ==
    /\ feature = "user"
    /\ Running(c, "avatar_getByID")
    /\ \E fault \in FaultChoices, dfault \in FaultChoices :
          LET res == RepoGetByID(feature, store, req[c].id, fault)
          IN  IF res.err # Nil \/ res.row = Nil
              THEN /\ req' = [req EXCEPT ![c] =
                                 IF res.err # Nil
                                 THEN Fail(Called(@), RepoError(feature, "update avatar of",
                                                                res.err[1]))
                                 ELSE Fail(Called(@), NotFound("User"))]
                   /\ files' = DeleteFile(files, req[c].file[1], dfault)
              ELSE /\ req' = [req EXCEPT ![c] =
                                 [At(Called(@), "avatar_write") EXCEPT !.old = res.row]]
                   /\ files' = files
    /\ UNCHANGED <<fnIn, fnOut, feature, store, nextId, deleted, dbFaulty,
                   nextFile, endpoints>>

\* repository.UpdateAvatar: the UPDATE
UserAvatarWrite(c) ==
    /\ feature = "user"
    /\ Running(c, "avatar_write")
    /\ \E fault \in FaultChoices, dfault \in FaultChoices :
          LET res == RepoUpdateAvatar(store, req[c].id, req[c].file[1], fault)
          IN  /\ store' = res.store
              /\ IF res.err # Nil \/ res.affected = 0
                 THEN /\ req' = [req EXCEPT ![c] =
                                    IF res.err # Nil
                                    THEN Fail(Called(@),
                                              RepoError(feature, "update avatar of",
                                                        res.err[1]))
                                    ELSE Fail(Called(@), NotFound("User"))]
                      /\ files' = DeleteFile(files, req[c].file[1], dfault)
                 ELSE /\ req' = [req EXCEPT ![c] = At(Called(@), "avatar_reload")]
                      /\ files' = files
    /\ UNCHANGED <<fnIn, fnOut, feature, nextId, deleted, dbFaulty, nextFile, endpoints>>

\* repository.UpdateAvatar: return r.GetByID(ctx, id); then service.UpdateAvatar
\* deletes the old avatar file
UserAvatarReload(c) ==
    /\ feature = "user"
    /\ Running(c, "avatar_reload")
    /\ \E fault \in FaultChoices, dfault \in FaultChoices :
          LET res == RepoGetByID(feature, store, req[c].id, fault)
          IN  IF res.err # Nil \/ res.row = Nil
              THEN /\ req' = [req EXCEPT ![c] =
                                 IF res.err # Nil
                                 THEN Fail(@, RepoError(feature, "update avatar of",
                                                        res.err[1]))
                                 ELSE Fail(@, NotFound("User"))]
                   /\ files' = DeleteFile(files, req[c].file[1], dfault)
              ELSE /\ req' = [req EXCEPT ![c] =
                                 Finish(@, OK("Avatar updated successfully",
                                              ToUserResponse(res.row[1], BaseURL)))]
                   /\ files' = DeleteAvatarOf(files, req[c].old[1], dfault)
    /\ UNCHANGED <<fnIn, fnOut, feature, store, nextId, deleted, dbFaulty,
                   nextFile, endpoints>>

\* Handler.Delete, service.Delete up to its first repository call
UserStartDelete(c) ==
    /\ feature = "user"
    /\ "Delete" \in endpoints
    /\ CanStart(c)
    /\ \E id \in IdInputs :
          LET r == NewReq("Delete", id, [Name |-> <<>>])
          IN  req' = [req EXCEPT ![c] =
                         IF id <= 0
                         THEN Fail(r, BadRequest(Txt("Invalid %s ID", <<feature>>)))
                         ELSE At(r, "udelete_getByID")]
    /\ UNCHANGED <<fnIn, fnOut, feature, store, nextId, deleted, dbFaulty,
                   files, nextFile, endpoints>>

\* service.Delete: user, err := s.repo.GetByID(ctx, id)
UserDeleteGetByID(c) ==
    /\ feature = "user"
    /\ Running(c, "udelete_getByID")
    /\ \E fault \in FaultChoices :
          LET res == RepoGetByID(feature, store, req[c].id, fault)
          IN  req' = [req EXCEPT ![c] =
                         IF res.err # Nil
                         THEN Fail(Called(@), RepoError(feature, "delete", res.err[1]))
                         ELSE IF res.row = Nil THEN Fail(Called(@), NotFound("User"))
                         ELSE [At(Called(@), "udelete_exec") EXCEPT !.old = res.row]]
    /\ UNCHANGED <<fnIn, fnOut, feature, store, nextId, deleted, dbFaulty,
                   files, nextFile, endpoints>>

\* service.Delete: err = s.repo.Delete(ctx, id), then the avatar file
UserDeleteExec(c) ==
    /\ feature = "user"
    /\ Running(c, "udelete_exec")
    /\ \E fault \in FaultChoices, dfault \in FaultChoices :
          LET res == RepoDelete(feature, store, req[c].id, fault)
          IN  /\ store' = res.store
              /\ deleted' = IF res.err = Nil THEN deleted \cup {req[c].id} ELSE deleted
              /\ files' = IF res.err = Nil THEN DeleteAvatarOf(files, req[c].old[1], dfault)
                          ELSE files
              /\ req' = [req EXCEPT ![c] =
                            IF res.err # Nil
                            THEN Fail(Called(@), DeleteError(feature, res.err[1]))
                            ELSE Finish(Called(@),
                                        Response(StatusOK, TRUE, "User deleted successfully",
                                                 Nil, Nil))]
    /\ UNCHANGED <<fnIn, fnOut, feature, nextId, dbFaulty, nextFile, endpoints>>

UserNext ==
    \/ \E c \in DOMAIN req : UserStartCreate(c)
    \/ \E c \in DOMAIN req : UserCreateDivision(c)
    \/ \E c \in DOMAIN req : UserCreateGetByEmail(c)
    \/ \E c \in DOMAIN req : UserCreateInsert(c)
    \/ \E c \in DOMAIN req : UserCreateReload(c)
    \/ \E c \in DOMAIN req : UserStartUpdate(c)
    \/ \E c \in DOMAIN req : UserUpdateExists(c)
    \/ \E c \in DOMAIN req : UserUpdateDivision(c)
    \/ \E c \in DOMAIN req : UserUpdateGetByID(c)
    \/ \E c \in DOMAIN req : UserUpdateWrite(c)
    \/ \E c \in DOMAIN req : UserUpdateReload(c)
    \/ \E c \in DOMAIN req : UserStartUpdateAvatar(c)
    \/ \E c \in DOMAIN req : UserAvatarGetByID(c)
    \/ \E c \in DOMAIN req : UserAvatarWrite(c)
    \/ \E c \in DOMAIN req : UserAvatarReload(c)
    \/ \E c \in DOMAIN req : UserStartDelete(c)
    \/ \E c \in DOMAIN req : UserDeleteGetByID(c)
    \/ \E c \in DOMAIN req : UserDeleteExec(c)

-----------------------------------------------------------------------------
(* handlers: input that cannot be parsed.                                  *)

\* what c.Bind returns for a body or a query string it cannot bind: echo's
\* own error, which is no *errors.AppError
BindError == PlainError(Txt("code=400, message=Bad Request", <<>>))

\* The inputs a handler parses, by operation: the id path parameter
\* (strconv.Atoi), the body or the query string (c.Bind), the uploaded file
\* (c.FormFile).  The category handler's GetAll binds nothing.
ParseFailures(f, op) ==
    (IF op \in {"GetByID", "Update", "Delete", "UpdateAvatar"} THEN {"id"} ELSE {})
    \cup (IF op \in {"Create", "Update"} THEN {"body"} ELSE {})
    \cup (IF op = "GetAll" /\ f # "category" THEN {"query"} ELSE {})
    \cup (IF op = "UpdateAvatar" THEN {"file"} ELSE {})

\* the error the handler hands to response.Error when `what` is the first
\* input that fails to parse
ParseError(f, op, what) ==
    IF what = "id" THEN BadRequest(Txt("Invalid %s ID", <<f>>))
    ELSE IF what = "query" THEN BadRequest(Txt("Invalid query parameters", <<>>))
    ELSE IF what = "file" THEN BadRequest(Txt("Avatar file is required", <<>>))
    ELSE BindError

\* a handler receives a request whose input cannot be parsed and answers it
\* without calling the service
HandleUnparsed(c) ==
    /\ feature \in Features
    /\ c \in Readers
    /\ CanStart(c)
    /\ \E op \in endpoints :
       \E what \in ParseFailures(feature, op) :
          req' = [req EXCEPT ![c] =
                     Reject([IdleReq EXCEPT !.op = op, !.pc = "start", !.unparsed = what],
                            ParseError(feature, op, what))]
    /\ UNCHANGED <<fnIn, fnOut, feature, store, nextId, deleted, dbFaulty,
                   files, nextFile, endpoints>>

\* the routed operations of a feature
RoutedOps == {"Create", "Update", "Delete", "GetByID", "GetAll"}

\* A run is of one feature.  RegisterRoutes of user registers no route for
\* Handler.UpdateAvatar; the handler is exercised in runs of its own, next
\* to Create, Delete and GetByID.
Scenarios ==
    {[feature |-> f, endpoints |-> RoutedOps] : f \in Features}
    \cup {[feature |-> "user",
           endpoints |-> {"Create", "UpdateAvatar", "Delete", "GetByID"}]}

ClientsInit(features, clients, faulty) ==
    /\ fnIn = Nil
    /\ fnOut = Nil
    /\ \E sc \in Scenarios :
          /\ sc.feature \in features
          /\ feature = sc.feature
          /\ endpoints = sc.endpoints
    /\ store = {}
    /\ nextId = 1
    /\ req = [c \in clients |-> IdleReq]
    /\ deleted = {}
    /\ dbFaulty = faulty
    /\ files = {}
    /\ nextFile = 1

\* two clients send requests of one feature to a database that does not fail
Init == ClientsInit(Features, {"c1", "c2"}, FALSE)

Next ==
    \/ CrudNext
    \/ UserNext
    \/ \E c \in DOMAIN req : HandleUnparsed(c)

Spec == Init /\ [][Next]_vars

\* the same clients, and any statement or file operation may fail
InitFault == ClientsInit(Features, {"c1", "c2"}, TRUE)

SpecFault == InitFault /\ [][Next]_vars

-----------------------------------------------------------------------------
(* Claims about the requests of the three features.                        *)

Ids(s) == {r.id : r \in s}

\* no two rows of s have names that are equal when letter case is ignored
NoCaseDuplicates(s) ==
    \A r1, r2 \in s : r1.id # r2.id => Lower(r1.name) # Lower(r2.name)

\* some row of s is named name, letter case ignored
StoredIgnoringCase(s, name) == \E r \in s : Lower(r.name) = Lower(name)

\* client c takes a step of its request from position pc
Steps(c, pc) == req[c].pc = pc /\ req'[c] # req[c]

\* client c holds the response of a finished request op
Done(c, op) == req[c].op = op /\ req[c].pc = "done"

Answered(r, status, code) ==
    /\ r.pc = "done"
    /\ r.resp # Nil
    /\ r.resp[1].success = FALSE
    /\ r.resp[1].status = status
    /\ r.resp[1].error[1].Code = code

(* C5: after any sequence and any interleaving of category Create, Update  *)
(* and Delete requests, no two stored categories have names that are equal *)
(* when letter case is ignored.                                            *)
C5_CategoryNamesUnique == feature = "category" => NoCaseDuplicates(store)

\* two category Creates raced past the pre-check and the index refused one:
\* a Create is answered ALREADY_EXISTS after its INSERT
C5_Witness ==
    /\ feature = "category"
    /\ \E c \in DOMAIN req :
          /\ Done(c, "Create")
          /\ req[c].calls = 2
          /\ Answered(req[c], 409, "ALREADY_EXISTS")
          /\ \E r \in store : /\ Lower(r.name) = Lower(TrimSpace(req[c].body[1].Name))
                              /\ r.name # TrimSpace(req[c].body[1].Name)

(* C6: after any interleaving of concurrent division Create and Update     *)
(* requests, no two stored divisions have names that are equal when letter *)
(* case is ignored.                                                        *)
C6_DivisionNamesUnique == feature = "division" => NoCaseDuplicates(store)

(* C7, as stated: Create of a category (or division) whose trimmed name    *)
(* equals, ignoring letter case, the name of an already stored one returns *)
(* ALREADY_EXISTS (409) and leaves the stored set unchanged.  A request    *)
(* that Create answers on arrival is answered ALREADY_EXISTS.              *)
C7_Original ==
    [][\A c \in DOMAIN req :
          (/\ feature \in CrudFeatures
           /\ Steps(c, "idle")
           /\ req'[c].op = "Create"
           /\ req'[c].body # Nil
           /\ StoredIgnoringCase(store, TrimSpace(req'[c].body[1].Name))
           /\ req'[c].pc = "done")
          => (Answered(req'[c], 409, "ALREADY_EXISTS") /\ store' = store)]_vars

(* C7, amended: Create of a category (or division) whose name passes       *)
(* validation and whose trimmed name equals, ignoring letter case, the     *)
(* name of a row stored when the service looks the name up returns         *)
(* ALREADY_EXISTS (409) and leaves the stored set unchanged.               *)
C7_CreateDuplicate ==
    [][\A c \in DOMAIN req :
          /\ (/\ feature \in CrudFeatures
              /\ Steps(c, "idle")
              /\ req'[c].op = "Create"
              /\ req'[c].body # Nil
              /\ Validate(feature, req'[c].body[1]) = Nil)
             => req'[c].pc = "create_getByName" /\ store' = store
          /\ (/\ Steps(c, "create_getByName")
              /\ StoredIgnoringCase(store, TrimSpace(req[c].body[1].Name)))
             => Answered(req'[c], 409, "ALREADY_EXISTS") /\ store' = store]_vars

\* a Create of "AB" was answered ALREADY_EXISTS by the pre-check while "ab"
\* is stored
C7_Witness ==
    \E c \in DOMAIN req :
        /\ Done(c, "Create")
        /\ req[c].calls = 1
        /\ Answered(req[c], 409, "ALREADY_EXISTS")
        /\ \E r \in store : /\ Lower(r.name) = Lower(TrimSpace(req[c].body[1].Name))
                            /\ r.name # TrimSpace(req[c].body[1].Name)

(* C8: GetByID, Update (with a valid body) and Delete on a positive id     *)
(* that is not in the store (when the service looks the id up) return      *)
(* NOT_FOUND (404) and leave the store unchanged; after a successful       *)
(* Delete of an id, GetByID of that id returns NOT_FOUND.                  *)
C8_NotFound ==
    [][\A c \in DOMAIN req :
          /\ (/\ \/ Steps(c, "get_query")
                 \/ Steps(c, "update_exists")
                 \/ Steps(c, "delete_exists")
                 \/ Steps(c, "uupdate_exists")
                 \/ Steps(c, "udelete_getByID")
              /\ req[c].id > 0
              /\ req[c].id \notin Ids(store))
             => Answered(req'[c], 404, "NOT_FOUND") /\ store' = store
          /\ (Steps(c, "get_query") /\ req[c].id \in deleted)
             => Answered(req'[c], 404, "NOT_FOUND")]_vars

\* GetByID of an id that a Delete removed was answered NOT_FOUND
C8_Witness ==
    \E c \in DOMAIN req :
        /\ Done(c, "GetByID")
        /\ req[c].id \in deleted
        /\ Answered(req[c], 404, "NOT_FOUND")

\* an Update with a valid body of an id that is not stored was answered
\* NOT_FOUND
C8_WitnessUpdate ==
    \E c \in DOMAIN req :
        /\ Done(c, "Update")
        /\ req[c].id > 0
        /\ req[c].id \notin Ids(store)
        /\ feature \in CrudFeatures
        /\ Validate(feature, req[c].body[1]) = Nil
        /\ Answered(req[c], 404, "NOT_FOUND")

(* C4: every successful GetAll returns a list response in which            *)
(* pagination.page and pagination.limit are the normalized page and limit, *)
(* pagination.totalPages equals CalculateTotalPages(pagination.totalItems, *)
(* pagination.limit), and items is a (possibly empty, never null) list of  *)
(* at most pagination.limit elements.                                      *)
C4_ListResponse ==
    \A c \in DOMAIN req :
        (Done(c, "GetAll") /\ req[c].resp[1].success) =>
            LET q == req[c].body[1]
                d == req[c].resp[1].data[1]
                p == d.Pagination
            IN  /\ p.Page = (IF q.Page >= 1 THEN q.Page ELSE 1)
                /\ p.Limit = (IF q.Limit <= 0 THEN 10
                              ELSE IF q.Limit > 100 THEN 100 ELSE q.Limit)
                /\ p.TotalPages = CalculateTotalPages(p.TotalItems, p.Limit)
                /\ ~ d.Items.isNil
                /\ Len(d.Items.elems) <= p.Limit

\* a GetAll of users with limit 1 returned one item of two matching rows
C4_Witness ==
    \E c \in DOMAIN req :
        /\ feature = "user"
        /\ Done(c, "GetAll")
        /\ req[c].resp[1].success
        /\ req[c].resp[1].data[1].Pagination.Limit = 1
        /\ req[c].resp[1].data[1].Pagination.TotalItems = 2
        /\ Len(req[c].resp[1].data[1].Items.elems) = 1

\* the fields of a validator log, and the first message logged for a field
LoggedFields(log) == {log[i][1] : i \in DOMAIN log}

FirstLogged(log, field) ==
    log[CHOOSE i \in DOMAIN log :
            /\ log[i][1] = field
            /\ \A j \in DOMAIN log : log[j][1] = field => i <= j][2]

(* C9: a Create or Update request that fails validation (Validate ran and  *)
(* recorded an error) returns VALIDATION_ERROR (400) whose details map has *)
(* exactly one entry for each invalid field, holding the first message     *)
(* recorded for that field, and the request performs no repository read or *)
(* write.                                                                  *)
C9_ValidationError ==
    \A c \in DOMAIN req :
        (/\ req[c].op \in {"Create", "Update"}
         /\ req[c].vlog # <<>>) =>
            /\ Answered(req[c], 400, "VALIDATION_ERROR")
            /\ req[c].calls = 0
            /\ LET details == req[c].resp[1].error[1].Details
               IN  /\ details # Nil
                   /\ DOMAIN details[1] = LoggedFields(req[c].vlog)
                   /\ \A f \in DOMAIN details[1] :
                         details[1][f] = FirstLogged(req[c].vlog, f)

\* a user Create was answered VALIDATION_ERROR for five fields, of which
\* email had recorded two different messages
C9_Witness ==
    \E c \in DOMAIN req :
        /\ feature = "user"
        /\ Done(c, "Create")
        /\ Answered(req[c], 400, "VALIDATION_ERROR")
        /\ Cardinality(LoggedFields(req[c].vlog)) = 5
        /\ \E i, j \in DOMAIN req[c].vlog :
              /\ i < j
              /\ req[c].vlog[i][1] = "email"
              /\ req[c].vlog[j][1] = "email"
              /\ req[c].vlog[i][2] # req[c].vlog[j][2]

C10_WitnessInternal ==
    \E c \in DOMAIN req :
        /\ dbFaulty
        /\ Done(c, "Delete")
        /\ req[c].calls = 2
        /\ req[c].svcErr # Nil
        /\ req[c].svcErr[1].Code = "INTERNAL_SERVER_ERROR"

(* C11: a request whose input cannot be parsed (a body or query string     *)
(* that fails binding, or a non-numeric id path parameter) is answered     *)
(* with BAD_REQUEST (400) in every handler, never with                     *)
(* INTERNAL_SERVER_ERROR (500).                                            *)
C11_UnparsedBadRequest ==
    \A c \in DOMAIN req :
        (req[c].pc = "done" /\ req[c].unparsed # "")
            => Answered(req[c], 400, "BAD_REQUEST")

\* the codes of the README's table of error codes
ErrorCodes ==
    {CODE_NOT_FOUND, CODE_ALREADY_EXISTS, CODE_VALIDATION_ERROR, CODE_BAD_REQUEST,
     CODE_INTERNAL_ERROR}

(* C12: every error response the API sends, including the one sent when a  *)
(* handler panics, has success = false and an error object whose code is   *)
(* one of NOT_FOUND, ALREADY_EXISTS, VALIDATION_ERROR, BAD_REQUEST,         *)
(* INTERNAL_SERVER_ERROR.                                                  *)
C12_ErrorResponseCodes ==
    \A c \in DOMAIN req :
        (req[c].pc = "done" /\ req[c].resp[1].status >= 400)
            => /\ req[c].resp[1].success = FALSE
               /\ req[c].resp[1].error # Nil
               /\ req[c].resp[1].error[1].Code \in ErrorCodes

\* the row of s with the given id
RowOf(s, id) == CHOOSE r \in s : r.id = id

(* C13: a PATCH update of a user changes only the fields sent in the       *)
(* request: every field omitted from the request body (in particular phone *)
(* and isActive), and email, password and avatar_url always, keep their    *)
(* stored values after a successful Update.  Stated of the UPDATE          *)
(* statement of a user Update that changes a row.                          *)
C13_PatchKeepsOmitted ==
    [][\A c \in DOMAIN req :
          (/\ Steps(c, "uupdate_write")
           /\ req'[c].pc = "uupdate_reload")
          => LET b == req[c].body[1]
                 old == RowOf(store, req[c].id)
                 new == RowOf(store', req[c].id)
             IN  /\ new.email = old.email
                 /\ new.password = old.password
                 /\ new.avatarURL = old.avatarURL
                 /\ b.Phone = Nil => new.phone = old.phone
                 /\ b.IsActive = Nil => new.isActive = old.isActive]_vars

(* C14: after any sequence of successful user Create and Update requests,  *)
(* the stored role of every user is exactly one of ADMIN, IT, STAFF (no    *)
(* surrounding whitespace, no other value).                                *)
C14_StoredRoles == feature = "user" => \A u \in store : u.role \in ValidRoles

\* an Update that sent the role " ADMIN" succeeded, and the user's stored
\* role is "ADMIN"
C14_Witness ==
    \E c \in DOMAIN req :
        /\ feature = "user"
        /\ Done(c, "Update")
        /\ req[c].resp[1].success
        /\ req[c].body[1].Role = Str_sp_ADMIN
        /\ \E u \in store : u.id = req[c].id /\ u.role = Str_ADMIN

\* s contains t as a substring, letter case ignored
ContainsIgnoringCase(s, t) ==
    \E i \in 0 .. Len(s) - Len(t) : Lower(SubSeq(s, i + 1, i + Len(t))) = Lower(t)

\* row r is one a GetAll with this filter is to count and return
Wanted(f, r, filter) ==
    /\ ContainsIgnoringCase(r.name, filter.Name)
    /\ filter.IsActive = Nil \/ r.isActive = filter.IsActive[1]
    /\ IF f = "user"
       THEN /\ filter.Role = <<>> \/ r.role = filter.Role
            /\ filter.DivisionID <= 0 \/ r.divisionId = filter.DivisionID
       ELSE filter.CreatedAt = Nil \/ r.createdAt = filter.CreatedAt[1]

(* C15: GetAll with a non-empty name filter counts and returns exactly the *)
(* stored rows whose name contains the trimmed filter text as a substring, *)
(* ignoring letter case, for every filter text; further filters are        *)
(* combined with it by AND, and an empty filter matches every row.  Stated *)
(* of the COUNT and of the SELECT: the count is the number of these rows,  *)
(* the items are the page of them that offset and limit cut out.           *)
C15_NameFilter ==
    [][\A c \in DOMAIN req :
          LET want == {r \in store : Wanted(feature, r, req[c].filter[1])}
          IN  /\ (Steps(c, "list_count") /\ req'[c].pc = "list_select")
                 => req'[c].total = Cardinality(want)
              /\ (Steps(c, "list_select") /\ req'[c].resp[1].success)
                 => LET items == req'[c].resp[1].data[1].Items.elems
                        rest == Cardinality(want) - req[c].filter[1].Offset
                    IN  /\ {items[i].ID : i \in DOMAIN items} \subseteq Ids(want)
                        /\ Len(items) = Min(req[c].filter[1].Limit,
                                            IF rest > 0 THEN rest ELSE 0)]_vars

\* the file of the avatar that the record read by request r names, if any
OldAvatarFiles(r) ==
    IF r.old # Nil /\ r.old[1].avatarURL # Nil THEN {r.old[1].avatarURL[1]} \ {<<>>}
    ELSE {}

(* C16: an avatar update performs its steps in the order: read the user's  *)
(* current record, save the new avatar file, update the database row,      *)
(* delete the old avatar file; in particular the old avatar file is never  *)
(* deleted before the row has been updated to the new URL, and it is not   *)
(* deleted at all when the row update fails.                               *)
C16_AvatarOrder ==
    [][\A c \in DOMAIN req :
          (req'[c] # req[c] /\ req'[c].op = "UpdateAvatar")
          => \* the new file is saved after the record has been read
             /\ files' \ files # {} => req[c].old # Nil
             \* the row is updated after the new file has been saved
             /\ store' # store => (req[c].file # Nil /\ req[c].file[1] \in files)
             \* the old file is deleted after the row has been updated
             /\ (OldAvatarFiles(req[c]) \cap files) \ files' # {}
                => req[c].pc = "avatar_reload"
             \* and not when the update of the row failed
             /\ (req[c].pc = "avatar_write" /\ req'[c].pc = "done")
                => (OldAvatarFiles(req[c]) \cap files) \subseteq files']_vars

\* the users of s with this email, letter case ignored (the unique index of
\* the users table is on LOWER(email))
WithEmail(s, email) == {u \in s : Lower(u.email) = Lower(email)}

(* C17: when two Create user requests with the same email run              *)
(* concurrently, then in every interleaving of their database statements   *)
(* exactly one creates a user and the other is answered ALREADY_EXISTS     *)
(* (409), never INTERNAL_SERVER_ERROR (500); exactly one user with that    *)
(* email is stored afterwards.  Stated of the statements of a Create: the  *)
(* INSERT of an email that is not stored stores one user with it; the      *)
(* look-up and the INSERT of an email that is stored store nothing and the *)
(* request is answered ALREADY_EXISTS; no email is ever stored twice.      *)
C17_ConcurrentCreate ==
    [][\A c \in DOMAIN req :
          LET email == TrimSpace(req[c].body[1].Email)
          IN  /\ (Steps(c, "ucreate_insert") /\ WithEmail(store, email) = {})
                 => /\ req'[c].pc = "ucreate_reload"
                    /\ Cardinality(WithEmail(store', email)) = 1
              /\ ((Steps(c, "ucreate_getByEmail") \/ Steps(c, "ucreate_insert"))
                  /\ WithEmail(store, email) # {})
                 => /\ Answered(req'[c], 409, "ALREADY_EXISTS")
                    /\ store' = store
              /\ feature = "user"
                 => \A u \in store' : Cardinality(WithEmail(store', u.email)) = 1]_vars

\* two Creates with the same email raced: this one passed the look-up, its
\* INSERT was refused by the index and it was answered ALREADY_EXISTS, and
\* the other's user is the one stored with the email
C17_Witness ==
    \E c \in DOMAIN req :
        /\ feature = "user"
        /\ ~ dbFaulty
        /\ Done(c, "Create")
        /\ req[c].calls = 3
        /\ Answered(req[c], 409, "ALREADY_EXISTS")
        /\ Cardinality(WithEmail(store, TrimSpace(req[c].body[1].Email))) = 1

\* the rows of s that the WHERE clause of request r's filter matches
Matching(s, r) == {row \in s : Matches(feature, row, r.filter[1])}

(* C18, as stated: in every GetAll response, also when Create and Delete   *)
(* requests run concurrently with it, totalItems equals the number of rows *)
(* matching the filter in the store state from which the items were        *)
(* selected (the COUNT query and the paginated SELECT observe the same     *)
(* state).                                                                 *)
C18_Original ==
    [][\A c \in DOMAIN req :
          (Steps(c, "list_select") /\ req'[c].resp[1].success)
          => req'[c].resp[1].data[1].Pagination.TotalItems
                = Cardinality(Matching(store, req[c]))]_vars

(* C18, amended: in every GetAll response, also when Create and Delete     *)
(* requests run concurrently with it, totalItems equals the number of rows *)
(* matching the filter in the store state that the COUNT query observed;   *)
(* the items are selected from the store state that the paginated SELECT,  *)
(* a later statement, observes.                                            *)
C18_TotalItems ==
    [][\A c \in DOMAIN req :
          /\ (Steps(c, "list_count") /\ req'[c].pc = "list_select")
             => req'[c].total = Cardinality(Matching(store, req[c]))
          /\ (Steps(c, "list_select") /\ req'[c].resp[1].success)
             => LET d == req'[c].resp[1].data[1]
                IN  /\ d.Pagination.TotalItems = req[c].total
                    /\ {d.Items.elems[i].ID : i \in DOMAIN d.Items.elems}
                          \subseteq Ids(Matching(store, req[c]))]_vars

\* a GetAll answered with a totalItems that is not the number of matching
\* rows of the store its items were selected from: a Create or a Delete ran
\* between its COUNT and its SELECT
C18_Witness ==
    \E c \in DOMAIN req :
        /\ Done(c, "GetAll")
        /\ req[c].resp[1].success
        /\ req[c].resp[1].data[1].Pagination.TotalItems
              # Cardinality(Matching(store, req[c]))

====
